---- MODULE Spec2Model ----
(***************************************************************************)
(* Expert search (routes/search.py, ExpertSearchResource.post) modelled as *)
(* a state machine: one request runs from the parsing of its body to its   *)
(* response, one action per code segment between two external calls (LLM,  *)
(* embedding provider, database).                                          *)
(*                                                                         *)
(* Numbers.  Python floats are modelled in fixed point, in hundredths:     *)
(* the integer v stands for v / Scale.  Products and quotients round       *)
(* towards minus infinity at that resolution.  A value that Python turns   *)
(* into a complex number (a negative float raised to a non-integer power)  *)
(* is tagged cx = TRUE.                                                    *)
(***************************************************************************)
EXTENDS Integers, Sequences, FiniteSets, TLC

Scale == 10 * 10

Min(a, b) == IF a <= b THEN a ELSE b
Max(a, b) == IF a >= b THEN a ELSE b

\* Floats outside the finite range of the model: Huge stands for
\* float('inf') (as an int: an int too large for a float), 0 - Huge for
\* float('-inf'), NaN for float('nan'), which no comparison orders.
Huge == Scale * Scale * Scale
NaN == 0 - (2 * Huge)

\* a < b on Python numbers
FLt(a, b) == a # NaN /\ b # NaN /\ a < b

\* Python's min(a, b) and max(a, b): the first argument unless the second
\* is smaller (greater)
PyMin(a, b) == IF FLt(b, a) THEN b ELSE a
PyMax(a, b) == IF FLt(a, b) THEN b ELSE a

\* a * b and a / b on fixed-point numbers
FMul(a, b) == (a * b) \div Scale

\* floor of the square root of a natural number below 2^30, by bisection
RECURSIVE SqrtBetween(_, _, _)
SqrtBetween(n, lo, hi) ==
    IF lo >= hi THEN lo
    ELSE LET mid == (lo + hi + 1) \div 2
         IN  IF mid * mid <= n THEN SqrtBetween(n, mid, hi)
             ELSE SqrtBetween(n, lo, mid - 1)

ISqrt(n) == SqrtBetween(n, 0, Min(n, 32 * 1024))

\* square root of a non-negative fixed-point number
FSqrt(a) == ISqrt(a * Scale)

\* Python's a // b (floor division) for b # 0
PyFloorDiv(a, b) == IF b > 0 THEN a \div b ELSE (0 - a) \div (0 - b)

\* Python's s[a:b] on a sequence (negative indices count from the end)
PyIndex(i, n) == IF i < 0 THEN Max(i + n, 0) ELSE Min(i, n)
PySlice(s, a, b) ==
    LET lo == PyIndex(a, Len(s))
        hi == PyIndex(b, Len(s))
    IN  IF lo < hi THEN SubSeq(s, lo + 1, hi) ELSE << >>

\* the elements of a sequence
Range(s) == { s[i] : i \in 1..Len(s) }

(***************************************************************************)
(* config.py                                                               *)
(***************************************************************************)
SEARCHABLE_ATTRIBUTE_TYPES == << "agency", "role", "seniority", "skill", "program" >>

TypeSet == Range(SEARCHABLE_ATTRIBUTE_TYPES)

\* weights in hundredths: 1.5, 2.0, 1.0, 1.8, 1.2
ATTRIBUTE_WEIGHTS ==
    << [name |-> "agency",    weight |-> 150],
       [name |-> "role",      weight |-> 200],
       [name |-> "seniority", weight |-> 100],
       [name |-> "skill",     weight |-> 180],
       [name |-> "program",   weight |-> 120] >>

default_page_size == 20
max_page_size == 100

SEARCH_CONFIG ==
    [ max_attributes_per_type |-> 3,
      scoring_base            |-> 110,
      recency_decay_factor    |-> 10,
      default_page_size       |-> default_page_size,
      max_page_size           |-> max_page_size,
      use_cosine_similarity   |-> TRUE,
      similarity_threshold    |-> 40,
      max_similar_attributes  |-> 20,
      similarity_weight       |-> 100,
      attribute_weights       |-> ATTRIBUTE_WEIGHTS ]

(***************************************************************************)
(* JSON values of a request body.  t is the Python type of the value, v    *)
(* its number (an int as itself, a float or a numeric string in            *)
(* hundredths, a bool as 0 or 1), items the entries when it is a list.     *)
(***************************************************************************)
JInt(n)    == [t |-> "int",    v |-> n, items |-> << >>]
JFloat(h)  == [t |-> "float",  v |-> h, items |-> << >>]
JNumStr(h) == [t |-> "numstr", v |-> h, items |-> << >>]
JStr       == [t |-> "str",    v |-> 0, items |-> << >>]
JNone      == [t |-> "none",   v |-> 0, items |-> << >>]
JBool(b)   == [t |-> "bool",   v |-> b, items |-> << >>]
JList(l)   == [t |-> "list",   v |-> 0, items |-> l]
\* a dict: its items (key, value), in order
JDict(l)   == [t |-> "dict",   v |-> 0, items |-> l]

\* one entry of an attribute_weights list: dict says whether it is a dict
\* holding both keys 'name' and 'weight'
WeightItem(n, w) == [dict |-> TRUE, name |-> n, weight |-> w]
BadItem          == [dict |-> FALSE, name |-> "", weight |-> JNone]

\* the outcome of a coercion: a value, an exception that the except clauses
\* of lines 74 and 106 catch (ValueError, TypeError), or one they let through
\* (OverflowError)
Coerced(v) == [ok |-> TRUE,  raises |-> FALSE, v |-> v]
Rejected   == [ok |-> FALSE, raises |-> FALSE, v |-> 0]
Overflow   == [ok |-> FALSE, raises |-> TRUE,  v |-> 0]

\* float(x); a numeric string may spell nan or inf
ToFloat(x) ==
    CASE x.t = "float"  -> Coerced(x.v)
      [] x.t = "int"    -> IF x.v >= Huge \/ x.v <= 0 - Huge THEN Overflow
                           ELSE Coerced(x.v * Scale)
      [] x.t = "bool"   -> Coerced(x.v * Scale)
      [] x.t = "numstr" -> Coerced(x.v)
      [] OTHER          -> Rejected

\* int(x), truncating a float towards zero; a string is accepted when it
\* spells an integer
ToInt(x) ==
    CASE x.t = "int"    -> Coerced(x.v)
      [] x.t = "bool"   -> Coerced(x.v)
      [] x.t = "float"  -> IF x.v = NaN THEN Rejected
                           ELSE IF x.v >= Huge \/ x.v <= 0 - Huge THEN Overflow
                           ELSE Coerced(IF x.v >= 0 THEN x.v \div Scale
                                        ELSE 0 - ((0 - x.v) \div Scale))
      [] x.t = "numstr" -> IF x.v # NaN /\ x.v < Huge /\ x.v > 0 - Huge /\ x.v % Scale = 0
                           THEN Coerced(x.v \div Scale)
                           ELSE Rejected
      [] OTHER          -> Rejected

\* valid_settings of merge_config: type, min, max (floats in hundredths)
valid_settings ==
    [ similarity_threshold    |-> [type |-> "float", min |-> 0,     max |-> Scale],
      max_similar_attributes  |-> [type |-> "int",   min |-> 1,     max |-> 100],
      max_attributes_per_type |-> [type |-> "int",   min |-> 1,     max |-> 10],
      scoring_base            |-> [type |-> "float", min |-> Scale, max |-> 2 * Scale],
      recency_decay_factor    |-> [type |-> "float", min |-> 0,     max |-> Scale],
      similarity_weight       |-> [type |-> "float", min |-> 0,     max |-> 2 * Scale] ]

\* the weight clamp of validate_attribute_weights: max(0.0, min(10.0, w))
ClampWeight(w) == PyMax(0, PyMin(10 * Scale, w))

RECURSIVE ApplyWeights(_, _)
ApplyWeights(weights, user) ==
    IF user = << >> THEN weights
    ELSE LET item == Head(user)
             f    == ToFloat(item.weight)
             applies == item.dict /\ item.name \in TypeSet /\ f.ok
             next == IF applies
                     THEN [i \in 1..Len(weights) |->
                             IF weights[i].name = item.name
                             THEN [name |-> item.name, weight |-> ClampWeight(f.v)]
                             ELSE weights[i]]
                     ELSE weights
         IN  ApplyWeights(next, Tail(user))

validate_attribute_weights(user_weights, default_weights) ==
    IF user_weights.t # "list" THEN default_weights
    ELSE ApplyWeights(default_weights, user_weights.items)

\* the range validation of merge_config
ClampSetting(spec, v) ==
    LET lo == IF FLt(v, spec.min) THEN spec.min ELSE v
    IN  IF FLt(spec.max, lo) THEN spec.max ELSE lo

\* lines 71-75: the value as the type of the setting
CoerceSetting(key, value) ==
    IF valid_settings[key].type = "float" THEN ToFloat(value) ELSE ToInt(value)

\* a variant of MergeOne: a key that is not overridable is stored as well
MergeOneAnyKey(merged, default_config, key, value) ==
    IF key = "attribute_weights"
    THEN [merged EXCEPT !.attribute_weights =
              validate_attribute_weights(value, default_config.attribute_weights)]
    ELSE IF key \in DOMAIN valid_settings
    THEN LET c == CoerceSetting(key, value)
         IN  IF c.ok THEN [merged EXCEPT ![key] = ClampSetting(valid_settings[key], c.v)]
             ELSE merged
    ELSE [k \in DOMAIN merged \cup {key} |->
            IF k = key THEN ToInt(value).v ELSE merged[k]]

\* one iteration of the loop over overrides.items()
MergeOne(merged, default_config, key, value) ==
    IF key = "attribute_weights"
    THEN [merged EXCEPT !.attribute_weights =
              validate_attribute_weights(value, default_config.attribute_weights)]
    ELSE IF key \in DOMAIN valid_settings
    THEN LET spec == valid_settings[key]
             c == CoerceSetting(key, value)
         IN  IF c.ok THEN [merged EXCEPT ![key] = ClampSetting(spec, c.v)]
             ELSE merged
    ELSE merged

RECURSIVE MergeLoop(_, _, _)
MergeLoop(merged, default_config, overrides) ==
    IF overrides = << >> THEN merged
    ELSE MergeLoop(MergeOne(merged, default_config, Head(overrides).key,
                            Head(overrides).value),
                   default_config, Tail(overrides))

\* an item whose coercion raises an exception that is not caught: in
\* validate_attribute_weights (line 102) or in merge_config (line 73)
ItemRaises(key, value) ==
    IF key = "attribute_weights"
    THEN /\ value.t = "list"
         /\ \E i \in 1..Len(value.items) :
               /\ value.items[i].dict
               /\ value.items[i].name \in TypeSet
               /\ ToFloat(value.items[i].weight).raises
    ELSE /\ key \in DOMAIN valid_settings
         /\ CoerceSetting(key, value).raises

\* merge_config raises: overrides.items() of line 63 (AttributeError unless
\* overrides is a dict), or the coercion of an item
MergeRaises(overrides) ==
    \/ overrides.t # "dict"
    \/ \E i \in 1..Len(overrides.items) :
          ItemRaises(overrides.items[i].key, overrides.items[i].value)

\* overrides: the 'settings' value of the body, a dict
merge_config(default_config, overrides) ==
    MergeLoop(default_config, default_config, overrides.items)

\* a variant of DefaultsAfterMerge: merged is the defaults dict itself
DefaultsAfterMergeAliased(default_config, merged) == merged

\* what merge_config leaves in the dict it was given as default_config:
\* merged is a copy (line 51), lines 66 and 83 assign to the copy, and
\* validate_attribute_weights builds a new dict and list (lines 94, 110)
DefaultsAfterMerge(default_config, merged) == default_config

get_attribute_weight(config, attr_type) ==
    LET weights == config.attribute_weights
        hits == { i \in 1..Len(weights) : weights[i].name = attr_type }
    IN  IF hits = {} THEN Scale
        ELSE weights[CHOOSE i \in hits : \A j \in hits : i <= j].weight

(***************************************************************************)
(* Embeddings: integer vectors.  NoEmbedding is a NULL embedding column.   *)
(***************************************************************************)
NoEmbedding == << >>

Dot(a, b) == a[1] * b[1] + a[2] * b[2]
Norm(a) == ISqrt(Dot(a, a))

\* pgvector: 1 - (a <=> b), the cosine similarity of two non-zero vectors
Similarity(a, b) == (Dot(a, b) * Scale) \div (Norm(a) * Norm(b))

\* term.strip()
Strip(term) ==
    CASE term = " "  -> ""
      [] term = " x" -> "x"
      [] OTHER       -> term

\* what the embedding provider returns for a text
EmbeddingOf(text) ==
    CASE text = "x" -> << 5, 0 >>
      [] text = "y" -> << 3, 4 >>
      [] OTHER      -> << 0 - 5, 0 >>

(***************************************************************************)
(* The tables at the time of the request (models.py).  Dates are day       *)
(* numbers.  No skill or program attribute has an embedding.               *)
(***************************************************************************)
Today == 40 * 365

InitAttribute ==
    [ id \in 1..6 |->
        CASE id = 1 -> [type |-> "agency",    name |-> "NASA",   embedding |-> << 5, 0 >>]
          [] id = 2 -> [type |-> "agency",    name |-> "DOE",    embedding |-> << 0, 5 >>]
          [] id = 3 -> [type |-> "role",      name |-> "PM",     embedding |-> << 3, 4 >>]
          [] id = 4 -> [type |-> "role",      name |-> "Eng",    embedding |-> NoEmbedding]
          [] id = 5 -> [type |-> "seniority", name |-> "Senior", embedding |-> << 4, 3 >>]
          [] OTHER  -> [type |-> "skill",     name |-> "Python", embedding |-> NoEmbedding] ]

Years(n) == n * 365

InitExperience ==
    [ id \in 1..6 |->
        CASE id = 1 -> [expert_id |-> 1, start_date |-> Today - Years(4),  end_date |-> Today]
          [] id = 2 -> [expert_id |-> 2, start_date |-> Today - Years(4),  end_date |-> Today]
          [] id = 3 -> [expert_id |-> 2, start_date |-> Today - Years(6),  end_date |-> Today - Years(5)]
          [] id = 4 -> [expert_id |-> 3, start_date |-> Today - Years(4),  end_date |-> Today]
          [] id = 5 -> [expert_id |-> 3, start_date |-> Today - Years(24), end_date |-> Today - Years(20)]
          [] OTHER  -> [expert_id |-> 4, start_date |-> Today - Years(4),  end_date |-> Today] ]

InitExperienceAttribute ==
    { << 1, 1 >>, << 1, 3 >>, << 2, 1 >>, << 3, 3 >>, << 3, 5 >>,
      << 4, 1 >>, << 5, 2 >>, << 5, 5 >>, << 6, 1 >>, << 6, 6 >> }

InitExpert == 1..4

(***************************************************************************)
(* Scores: a Python float (cx = FALSE, v in hundredths) or a complex       *)
(* number (cx = TRUE).                                                     *)
(***************************************************************************)
Real(v) == [cx |-> FALSE, v |-> v]
Complex == [cx |-> TRUE,  v |-> 0]

ScoreAdd(a, b) == IF a.cx \/ b.cx THEN Complex ELSE Real(a.v + b.v)

RECURSIVE IntPow(_, _)
IntPow(b, n) == IF n = 0 THEN Scale ELSE FMul(b, IntPow(b, n - 1))

\* b ** (q / 4) for b >= 0 and q in 0..3
FracPow(b, q) ==
    CASE q = 0 -> Scale
      [] q = 1 -> FSqrt(FSqrt(b))
      [] q = 2 -> FSqrt(b)
      [] OTHER -> FMul(FSqrt(b), FSqrt(FSqrt(b)))

\* Python's base ** exponent for a float base and an exponent > 0, exact for
\* the exponents that are multiples of 0.25
PyPow(base, exponent) ==
    LET quarters == (exponent * 4) \div Scale
        whole == quarters \div 4
        frac  == quarters % 4
    IN  IF frac = 0 THEN Real(IntPow(base, whole))
        ELSE IF base < 0 THEN Complex
        ELSE Real(FMul(IntPow(base, whole), FracPow(base, frac)))

\* scoring_query: (e.end_date - e.start_date) / 365.0
duration_years(e) == ((e.end_date - e.start_date) * Scale) \div 365

\* a variant of recency_multiplier: without GREATEST(0.1, ...)
recency_multiplier_unfloored(recency_factor, e) ==
    Scale - (recency_factor * (Today - e.end_date)) \div 365

\* scoring_query: GREATEST(0.1, 1 - :recency_factor * (CURRENT_DATE - e.end_date) / 365.0)
recency_multiplier(recency_factor, e) ==
    Max(Scale \div 10, Scale - (recency_factor * (Today - e.end_date)) \div 365)

\* base_score of the scoring loop
base_score(duration, recency, similarity) == FMul(FMul(duration, recency), similarity)

\* a variant of exp_score: the linear weighting base * weight
exp_score_linear(base, weight) == Real(FMul(base, weight))

\* exp_score of the scoring loop
exp_score(base, weight) ==
    IF weight = 0 THEN Real(0) ELSE PyPow(base, weight \div 2)

(***************************************************************************)
(* Bounds and inputs of the model                                          *)
(***************************************************************************)
MaxPage == 2
MaxPageSize == 2
MaxTermTypes == 2

\* 'page' of the body (1 when the key is absent)
Pages == (0 - 1)..MaxPage

\* 'page_size' of a JSON body
PageSizes == ((0 - 1)..MaxPageSize) \cup {max_page_size + 1}

ContentTypes == {"application/json", "text/plain", "text/html"}

\* 'text' of the body: a query, whitespace only, or empty (also when the key
\* is absent)
Texts == {"query", " ", ""}

\* 'settings' of the body: a dict ({} when the key is absent), or a value
\* that is not a dict
SettingsChoices ==
    { JDict(<< >>),
      JDict(<< [key |-> "attribute_weights",
                value |-> JList(<< WeightItem("role", JInt(0)), BadItem,
                                   WeightItem("seniority", JFloat(2 * Scale)) >>)] >>),
      JDict(<< [key |-> "recency_decay_factor", value |-> JInt(5)],
               [key |-> "similarity_threshold", value |-> JFloat(90)],
               [key |-> "default_page_size", value |-> JInt(1)],
               [key |-> "attribute_weights",
                value |-> JList(<< WeightItem("agency", JNumStr(4 * Scale)),
                                   WeightItem("role", JStr) >>)] >>),
      JList(<< >>),
      JNone }

\* the keys and the values of the overrides merge_config is checked on
MaxOverrides == 2
MaxWeightItems == 2

OverrideKeys ==
    DOMAIN valid_settings \cup
        {"attribute_weights", "default_page_size", "max_page_size", "unknown"}

OverrideValues ==
    { JInt(0 - 1), JInt(0), JInt(5), JInt(Scale + 1), JInt(Huge),
      JFloat(0 - 50), JFloat(50), JFloat(150), JFloat(250), JFloat(Huge),
      JFloat(NaN), JNumStr(50), JNumStr(5 * Scale), JNumStr(NaN),
      JStr, JNone, JBool(1), JList(<< >>) }

WeightEntries ==
    { WeightItem(n, w) :
        n \in {"role", "seniority", "bogus"},
        w \in { JInt(0), JInt(0 - 1), JInt(11), JFloat(250), JFloat(NaN),
                JNumStr(4 * Scale), JStr, JInt(Huge) } }
      \cup {BadItem}

\* the sequences of at most n elements of S
SeqUpTo(S, n) == UNION { [1..k -> S] : k \in 0..n }

OverrideItems ==
    { [key |-> k, value |-> v] : k \in OverrideKeys, v \in OverrideValues }
      \cup { [key |-> "attribute_weights", value |-> JList(l)] :
               l \in SeqUpTo(WeightEntries, MaxWeightItems) }

\* overrides that follow the first one in a map
LaterItems ==
    { [key |-> "similarity_threshold", value |-> JFloat(90)],
      [key |-> "max_similar_attributes", value |-> JStr],
      [key |-> "unknown", value |-> JInt(1)] }

\* the settings dicts: a first item and later items, the keys all different
OverrideMaps ==
    { m \in { << first >> \o rest :
                first \in OverrideItems,
                rest \in SeqUpTo(LaterItems, MaxOverrides - 1) } :
        \A i, j \in 1..Len(m) : i < j => m[i].key # m[j].key }

\* the settings of the requests that follow one another
MaxRequests == 2

SessionSettings ==
    { JDict(<< >>) }
      \cup { JDict(<< [key |-> k, value |-> v] >>) :
               k \in OverrideKeys, v \in OverrideValues }
      \cup { JDict(<< [key |-> "attribute_weights", value |-> JList(<< e >>)] >>) :
               e \in WeightEntries }

\* the ages (today - end_date, in days) of the experiences the recency
\* multiplier is checked on: steps of a fifth of a year, from an end date in
\* the future on
MaxAgeYears == 2

Ages == { 73 * d : d \in (0 - 2)..(5 * MaxAgeYears) }

\* the lists the LLM returns for one type
TermLists == { << >>, << "z" >>, << "y" >>, << " x", "z" >>, << " ", "y" >> }

\* what the LLM returns: a list of terms for each type (an absent key and an
\* empty list are treated alike by the handler)
LLMOutputs ==
    UNION { [ts -> TermLists \ {<< >>}] : ts \in {u \in SUBSET TypeSet : Cardinality(u) <= MaxTermTypes} }

TermsOf(out, attr_type) == IF attr_type \in DOMAIN out THEN out[attr_type] ELSE << >>

VARIABLES
    attribute, experience, experience_attribute, expert,
    pc, request, session, effective_config, calls,
    llm_extracted, all_terms, term_to_type, embeddings, term_idx,
    search_attributes, extracted_attributes,
    all_attribute_ids, attr_similarity, results,
    expert_scores, experience_details, sorted_experts, paginated_experts,
    response,
    search_config, served,
    embedding1, embedding2, returned,
    next_id, ingest, loader,
    prompt, transaction

\* search_config is the module-level dict SEARCH_CONFIG of config.py as it is
\* now (SEARCH_CONFIG is its value at import, ATTRIBUTE_WEIGHTS its entry
\* attribute_weights); served counts the requests answered before this one
shared == << search_config, served >>
tables == << attribute, experience, experience_attribute, expert >>
resolver == << llm_extracted, all_terms, term_to_type, embeddings, term_idx,
               search_attributes, extracted_attributes >>
scoring == << all_attribute_ids, attr_similarity, results, expert_scores,
              experience_details, sorted_experts, paginated_experts >>
\* the state of the code outside routes/search.py: the arguments and the
\* result of a call of EmbeddingService.cosine_similarity; the next value of
\* the id sequences, the text ingestion under way (routes/Experts.py) and
\* the run of a CSV loader under way (data/*/load.py)
cosine == << embedding1, embedding2, returned >>
writers == << next_id, ingest, loader >>
prompts == << prompt, transaction >>
elsewhere == << cosine, writers, prompts >>
vars == << tables, pc, request, session, effective_config, calls, resolver,
           scoring, response, shared, elsewhere >>

NoRequest == [content_type |-> "", text |-> "", page |-> 0, page_size |-> 0,
              settings |-> JDict(<< >>)]

\* a response: kind is "error", "no_matches" (lines 260-269), "empty_page"
\* (lines 375-383) or "results" (lines 579-600); paging tells whether page,
\* page_size and total_pages are part of it
NoResponse == [status |-> 0, kind |-> "", experts |-> << >>, total_experts |-> 0,
               paging |-> FALSE, page |-> 0, page_size |-> 0, total_pages |-> 0]

\* a variant of ErrorResponse: the failure is answered as an empty result
DegradedResponse(code) == [NoResponse EXCEPT !.status = 200, !.kind = "no_matches"]

\* return {'message': ...}, code
ErrorResponse(code) == [NoResponse EXCEPT !.status = code, !.kind = "error"]

TablesInit ==
    /\ attribute = InitAttribute
    /\ experience = InitExperience
    /\ experience_attribute = InitExperienceAttribute
    /\ expert = InitExpert

SharedInit ==
    /\ search_config = SEARCH_CONFIG
    /\ served = 0

\* no call of cosine_similarity is under way
NoCall == [raises |-> FALSE, v |-> 0]

\* no ingestion under way: state is "idle", "open" (the expert is flushed)
\* or "done"; phase is the place in the loops; status the HTTP status; the
\* pending rows are those flushed and not committed; created_... the ids
\* the request has drawn
NoIngest ==
    [state |-> "idle", phase |-> "", status |-> 0, cause |-> "",
     expert |-> 0, experience |-> 0, experiences |-> 0, attributes |-> 0,
     pending_experience |-> << >>, pending_attribute |-> << >>,
     pending_links |-> {}, new_attr |-> [name |-> "", type |-> "", summary |-> ""],
     created_experience |-> {}, created_attribute |-> {}]

\* no loader run under way: rows read so far, the level of the last one and
\* the agency_cache
NoLoader == [rows |-> 0, level |-> 0, agency_cache |-> << >>]

WritersInit ==
    /\ next_id = [attribute |-> 1, experience |-> 1, expert |-> 1, prompt |-> 1]
    /\ ingest = NoIngest
    /\ loader = NoLoader

\* the clients of the prompt routes, and a client with no request open
MaxClients == 2
Clients == 1..MaxClients
NoTransaction ==
    [kind |-> "", phase |-> "idle", status |-> 0, template_name |-> "",
     next_version |-> 0, is_active_version |-> FALSE, prompt_id |-> 0,
     candidates |-> {}, deactivated |-> {}]

PromptsInit ==
    /\ prompt = << >>
    /\ transaction = [c \in Clients |-> NoTransaction]

ElsewhereInit ==
    /\ embedding1 = JNone
    /\ embedding2 = JNone
    /\ returned = NoCall
    /\ WritersInit
    /\ PromptsInit

\* the locals of post before their assignment
LocalsInit ==
    /\ effective_config = SEARCH_CONFIG
    /\ calls = << >>
    /\ llm_extracted = << >>
    /\ all_terms = << >>
    /\ term_to_type = << >>
    /\ embeddings = << >>
    /\ term_idx = 0
    /\ search_attributes = << >>
    /\ extracted_attributes = << >>
    /\ all_attribute_ids = << >>
    /\ attr_similarity = << >>
    /\ results = << >>
    /\ expert_scores = << >>
    /\ experience_details = << >>
    /\ sorted_experts = << >>
    /\ paginated_experts = << >>
    /\ response = NoResponse

Init ==
    /\ TablesInit
    /\ SharedInit
    /\ pc = "idle"
    /\ request = NoRequest
    /\ session = "none"
    /\ LocalsInit
    /\ ElsewhereInit

\* a variant of Return: the finally clause is missing
ReturnLeaked(resp) ==
    /\ response' = resp
    /\ session' = session
    /\ pc' = "done"

\* return ..., with the finally clause closing the session
Return(resp) ==
    /\ response' = resp
    /\ session' = "closed"
    /\ pc' = "done"

(***************************************************************************)
(* post, lines 19-113: the body is read, the text checked and the config   *)
(* merged.                                                                 *)
(***************************************************************************)
Receive ==
    /\ pc = "idle"
    /\ \E ct \in ContentTypes, txt \in Texts, pg \in Pages, ps \in PageSizes,
          st \in SettingsChoices :
          LET json == ct = "application/json"
              req == [content_type |-> ct,
                      text |-> txt,
                      page_size |-> IF json THEN Min(ps, search_config.max_page_size)
                                    ELSE search_config.default_page_size,
                      page |-> IF json THEN pg ELSE 1,
                      settings |-> IF json THEN st ELSE JDict(<< >>)]
          IN  /\ ~json => (pg = 1 /\ ps = 1 /\ st = JDict(<< >>))
              \* paging and settings do not meet in the handler: settings are
              \* drawn for requests of the first page only
              /\ st # JDict(<< >>) => (pg = 1 /\ ps = MaxPageSize)
              /\ ct = "text/html" => txt = "query"
              /\ request' = req
              /\ IF ct = "text/html"
                 THEN /\ Return(ErrorResponse(400))
                      /\ UNCHANGED << effective_config, search_config >>
                 ELSE IF Strip(txt) = ""
                 THEN /\ Return(ErrorResponse(400))
                      /\ UNCHANGED << effective_config, search_config >>
                 ELSE IF MergeRaises(req.settings)
                 THEN \* lines 611-615
                      /\ Return(ErrorResponse(500))
                      /\ UNCHANGED << effective_config, search_config >>
                 ELSE /\ effective_config' = merge_config(search_config, req.settings)
                      /\ search_config' = DefaultsAfterMerge(search_config, effective_config')
                      /\ session' = "open"
                      /\ pc' = "llm"
                      /\ UNCHANGED response
    /\ UNCHANGED << tables, calls, resolver, scoring, served >>
    /\ UNCHANGED elsewhere

(***************************************************************************)
(* post, lines 126-183: the LLM call and the selection of the terms        *)
(***************************************************************************)
\* a variant of SelectedTerms: every term of the list
SelectedTermsAll(terms) == terms

\* line 157: llm_extracted[attr_key][:1]
SelectedTerms(terms) == PySlice(terms, 0, 1)

\* lines 158-161 for the terms of one type: acc is [all_terms, term_to_type]
RECURSIVE CollectTerms(_, _, _)
CollectTerms(terms, attr_type, acc) ==
    IF terms = << >> THEN acc
    ELSE LET term == Strip(Head(terms))
             next == IF term # ""
                     THEN [all_terms |-> Append(acc.all_terms, term),
                           term_to_type |->
                               [k \in DOMAIN acc.term_to_type \cup {term} |->
                                   IF k = term THEN attr_type ELSE acc.term_to_type[k]]]
                     ELSE acc
         IN  CollectTerms(Tail(terms), attr_type, next)

\* lines 151-161: the loop over SEARCHABLE_ATTRIBUTE_TYPES, from type i on
RECURSIVE CollectTypes(_, _, _)
CollectTypes(out, i, acc) ==
    IF i > Len(SEARCHABLE_ATTRIBUTE_TYPES) THEN acc
    ELSE LET attr_type == SEARCHABLE_ATTRIBUTE_TYPES[i]
             terms == TermsOf(out, attr_type)
         IN  CollectTypes(out, i + 1,
                 IF terms # << >>
                 THEN CollectTerms(SelectedTerms(terms), attr_type, acc)
                 ELSE acc)

\* the types whose list is present and not empty (lines 153, 164, 172)
ExtractedTypes(out) == { t \in TypeSet : TermsOf(out, t) # << >> }

NoMatchEntry(term, attr_type) ==
    [id |-> 0, term |-> term, matched_name |-> "", type |-> attr_type,
     relevance_score |-> 0, source |-> "no_match"]

MatchedEntry(term, id, name, similarity, attr_type) ==
    [id |-> id, term |-> term, matched_name |-> name, type |-> attr_type,
     relevance_score |-> similarity, source |-> "matched"]

\* lines 175-183: every non-blank term of a list as a no_match entry
RECURSIVE NoMatchEntries(_, _)
NoMatchEntries(terms, attr_type) ==
    IF terms = << >> THEN << >>
    ELSE (IF Strip(Head(terms)) # ""
          THEN << NoMatchEntry(Head(terms), attr_type) >> ELSE << >>)
         \o NoMatchEntries(Tail(terms), attr_type)

\* a variant of AfterExtract: the embedding call is made in every request
AfterExtractAlways(terms) == "embed"

\* lines 168 and 186: the embedding call is made only when a term was selected
AfterExtract(terms) == IF terms = << >> THEN "score" ELSE "embed"

LLMExtract ==
    /\ pc = "llm"
    /\ calls' = Append(calls, "llm")
    /\ \/ \* extract_from_template raises: lines 251-255
          /\ Return(ErrorResponse(500))
          /\ UNCHANGED << resolver >>
       \/ \E out \in LLMOutputs :
            LET acc == CollectTypes(out, 1, [all_terms |-> << >>, term_to_type |-> << >>])
            IN  /\ llm_extracted' = out
                /\ all_terms' = acc.all_terms
                /\ term_to_type' = acc.term_to_type
                /\ search_attributes' = [t \in ExtractedTypes(out) |-> << >>]
                /\ extracted_attributes' =
                       [t \in ExtractedTypes(out) |->
                           IF acc.all_terms = << >>
                           THEN NoMatchEntries(out[t], t) ELSE << >>]
                /\ pc' = AfterExtract(acc.all_terms)
                /\ UNCHANGED << embeddings, term_idx, response, session >>
    /\ UNCHANGED << tables, request, effective_config, scoring, shared >>
    /\ UNCHANGED elsewhere

(***************************************************************************)
(* post, lines 186-189: the batch embedding call                           *)
(***************************************************************************)
BatchEmbed ==
    /\ pc = "embed"
    /\ calls' = Append(calls, "embed")
    /\ \/ \* generate_batch_embeddings raises: lines 235-237
          /\ Return(ErrorResponse(500))
          /\ UNCHANGED << embeddings, term_idx >>
       \/ /\ embeddings' = [i \in 1..Len(all_terms) |-> EmbeddingOf(all_terms[i])]
          /\ term_idx' = 1
          /\ pc' = "match"
          /\ UNCHANGED << response, session >>
    /\ UNCHANGED << tables, request, effective_config, scoring, llm_extracted,
                    all_terms, term_to_type, search_attributes, extracted_attributes,
                    shared >>
    /\ UNCHANGED elsewhere

(***************************************************************************)
(* post, lines 192-234: one iteration of the loop over the terms, with its *)
(* similarity query                                                        *)
(***************************************************************************)
\* the rows similarity_query can return: the attributes of the type with an
\* embedding that are nearest to the term (LIMIT 1 picks one of them)
similarity_query(attr_type, term_embedding) ==
    LET cand == { id \in DOMAIN attribute :
                    /\ attribute[id].type = attr_type
                    /\ attribute[id].embedding # NoEmbedding }
    IN  { id \in cand : \A o \in cand :
            Similarity(attribute[id].embedding, term_embedding)
              >= Similarity(attribute[o].embedding, term_embedding) }

\* lines 213-234: the entries recorded for a term; id = 0 is "no row"
MatchTerm ==
    /\ pc = "match"
    /\ term_idx <= Len(all_terms)
    /\ calls' = Append(calls, "match")
    /\ LET term == all_terms[term_idx]
           attr_type == term_to_type[term]
           rows == similarity_query(attr_type, embeddings[term_idx])
       IN  IF rows # {}
           THEN \E id \in rows :
                  LET sim == Similarity(attribute[id].embedding, embeddings[term_idx])
                  IN  /\ search_attributes' =
                           [search_attributes EXCEPT ![attr_type] =
                               Append(@, [id |-> id, name |-> attribute[id].name,
                                          similarity |-> sim, extracted_term |-> term])]
                      /\ extracted_attributes' =
                           [extracted_attributes EXCEPT ![attr_type] =
                               Append(@, MatchedEntry(term, id, attribute[id].name, sim, attr_type))]
           ELSE /\ extracted_attributes' =
                     [extracted_attributes EXCEPT ![attr_type] =
                         Append(@, NoMatchEntry(term, attr_type))]
                /\ UNCHANGED search_attributes
    /\ term_idx' = term_idx + 1
    /\ pc' = IF term_idx = Len(all_terms) THEN "score" ELSE "match"
    /\ UNCHANGED << tables, request, session, effective_config, scoring, response,
                    llm_extracted, all_terms, term_to_type, embeddings, shared >>
    /\ UNCHANGED elsewhere

(***************************************************************************)
(* post, lines 239-383: the scoring query, the scoring loop, the ranking   *)
(* and the pagination                                                      *)
(***************************************************************************)
\* lines 240-243: the ids of search_attributes, type by type
RECURSIVE AttributeIds(_, _)
AttributeIds(sa, i) ==
    IF i > Len(SEARCHABLE_ATTRIBUTE_TYPES) THEN << >>
    ELSE LET t == SEARCHABLE_ATTRIBUTE_TYPES[i]
         IN  (IF t \in DOMAIN sa THEN [k \in 1..Len(sa[t]) |-> sa[t][k].id] ELSE << >>)
             \o AttributeIds(sa, i + 1)

\* lines 277-285: similarity and weight by attribute id; a later entry of
\* the same id replaces an earlier one
RECURSIVE AttrSimilarity(_, _, _, _)
AttrSimilarity(sa, config, i, acc) ==
    IF i > Len(SEARCHABLE_ATTRIBUTE_TYPES) THEN acc
    ELSE LET t == SEARCHABLE_ATTRIBUTE_TYPES[i]
             attrs == IF t \in DOMAIN sa THEN sa[t] ELSE << >>
             ids == { attrs[k].id : k \in 1..Len(attrs) }
             last(id) == CHOOSE k \in 1..Len(attrs) :
                            /\ attrs[k].id = id
                            /\ \A j \in 1..Len(attrs) : attrs[j].id = id => j <= k
         IN  AttrSimilarity(sa, config, i + 1,
                 [id \in DOMAIN acc \cup ids |->
                     IF id \in ids
                     THEN [similarity |-> attrs[last(id)].similarity,
                           weight |-> get_attribute_weight(config, t)]
                     ELSE acc[id]])

RowBefore(a, b) ==
    \/ a.expert_id < b.expert_id
    \/ a.expert_id = b.expert_id /\ a.experience_id < b.experience_id
    \/ a.expert_id = b.expert_id /\ a.experience_id = b.experience_id
         /\ a.attribute_id < b.attribute_id

RECURSIVE SortRows(_)
SortRows(S) ==
    IF S = {} THEN << >>
    ELSE LET first == CHOOSE r \in S : \A o \in S \ {r} : RowBefore(r, o)
         IN  << first >> \o SortRows(S \ {first})

\* scoring_query, lines 288-304: one row for each pair of experience_attribute
\* whose attribute is among the ids, ORDER BY expert_id, id (rows of one
\* experience are taken by attribute id)
scoring_query(attribute_ids, recency_factor) ==
    SortRows({ [expert_id |-> experience[p[1]].expert_id,
                experience_id |-> p[1],
                attribute_id |-> p[2],
                duration_years |-> duration_years(experience[p[1]]),
                recency_multiplier |-> recency_multiplier(recency_factor, experience[p[1]])] :
               p \in { q \in experience_attribute :
                         q[1] \in DOMAIN experience /\ q[2] \in Range(attribute_ids) } })

\* line 321: attr_similarity.get(attr_id, {'similarity': 1.0, 'weight': 1.0})
AttrInfo(sim, attr_id) ==
    IF attr_id \in DOMAIN sim THEN sim[attr_id]
    ELSE [similarity |-> Scale, weight |-> Scale]

\* lines 325-338: the contribution of one row
Contribution(row, sim) ==
    LET attr_info == AttrInfo(sim, row.attribute_id)
    IN  exp_score(base_score(row.duration_years, row.recency_multiplier,
                             attr_info.similarity),
                  attr_info.weight)

\* a variant of Accumulate: the score of the row replaces the total
AccumulateLast(scores, expert_id, score) ==
    IF \E i \in 1..Len(scores) : scores[i].expert_id = expert_id
    THEN [i \in 1..Len(scores) |->
            IF scores[i].expert_id = expert_id
            THEN [scores[i] EXCEPT !.score = score] ELSE scores[i]]
    ELSE Append(scores, [expert_id |-> expert_id, score |-> score])

\* lines 341-345: expert_scores is a dict, kept as the sequence of its items
\* in insertion order
Accumulate(scores, expert_id, score) ==
    LET known == \E i \in 1..Len(scores) : scores[i].expert_id = expert_id
        base == IF known THEN scores
                ELSE Append(scores, [expert_id |-> expert_id, score |-> Real(0)])
    IN  [i \in 1..Len(base) |->
            IF base[i].expert_id = expert_id
            THEN [base[i] EXCEPT !.score = ScoreAdd(@, score)]
            ELSE base[i]]

\* lines 348-361: the detail of a row, unless one of the same key is stored
AddDetail(details, row, score) ==
    IF \E i \in 1..Len(details) :
          /\ details[i].expert_id = row.expert_id
          /\ details[i].experience_id = row.experience_id
          /\ details[i].attribute_id = row.attribute_id
    THEN details
    ELSE Append(details, [expert_id |-> row.expert_id,
                          experience_id |-> row.experience_id,
                          attribute_id |-> row.attribute_id,
                          score |-> score,
                          duration_years |-> row.duration_years])

\* lines 315-361: the loop over the rows
RECURSIVE ScoreRows(_, _, _)
ScoreRows(rows, sim, acc) ==
    IF rows = << >> THEN acc
    ELSE LET row == Head(rows)
             score == Contribution(row, sim)
         IN  ScoreRows(Tail(rows), sim,
                 [expert_scores |-> Accumulate(acc.expert_scores, row.expert_id, score),
                  experience_details |-> AddDetail(acc.experience_details, row, score)])

\* a variant of InsertDesc: an item goes before the items of equal score
InsertDescUnstable(sorted, item) ==
    LET behind == { i \in 1..Len(sorted) : sorted[i].score.v > item.score.v }
        k == IF behind = {} THEN 0 ELSE CHOOSE i \in behind : \A j \in behind : j <= i
    IN  SubSeq(sorted, 1, k) \o << item >> \o SubSeq(sorted, k + 1, Len(sorted))

\* where sorted(..., reverse=True) puts an item among the items sorted so
\* far: behind every item whose score is not smaller (the sort is stable)
InsertDesc(sorted, item) ==
    LET behind == { i \in 1..Len(sorted) : sorted[i].score.v >= item.score.v }
        k == IF behind = {} THEN 0 ELSE CHOOSE i \in behind : \A j \in behind : j <= i
    IN  SubSeq(sorted, 1, k) \o << item >> \o SubSeq(sorted, k + 1, Len(sorted))

RECURSIVE SortedDesc(_, _)
SortedDesc(items, acc) ==
    IF items = << >> THEN acc
    ELSE SortedDesc(Tail(items), InsertDesc(acc, Head(items)))

\* line 364: comparing a complex score raises TypeError
SortRaises(items) ==
    Len(items) >= 2 /\ \E i \in 1..Len(items) : items[i].score.cx

\* lines 367-368
Paginate(sorted, page, page_size) ==
    LET offset == (page - 1) * page_size
    IN  PySlice(sorted, offset, offset + page_size)

\* a variant of NoMatches: no short cut
NoMatchesNever(attribute_ids) == FALSE

\* line 258: if not all_attribute_ids
NoMatches(attribute_ids) == attribute_ids = << >>

Score ==
    /\ pc = "score"
    /\ LET ids == AttributeIds(search_attributes, 1)
       IN  /\ all_attribute_ids' = ids
           /\ IF NoMatches(ids)
              THEN \* lines 258-269
                   /\ Return([NoResponse EXCEPT !.status = 200, !.kind = "no_matches"])
                   /\ UNCHANGED << calls, attr_similarity, results, expert_scores,
                                   experience_details, sorted_experts, paginated_experts >>
              ELSE /\ calls' = Append(calls, "scoring")
                   /\ attr_similarity' =
                         AttrSimilarity(search_attributes, effective_config, 1, << >>)
                   /\ results' = scoring_query(ids, effective_config.recency_decay_factor)
                   /\ LET acc == ScoreRows(results', attr_similarity',
                                           [expert_scores |-> << >>,
                                            experience_details |-> << >>])
                      IN  /\ expert_scores' = acc.expert_scores
                          /\ experience_details' = acc.experience_details
                   /\ IF SortRaises(expert_scores')
                      THEN \* lines 611-615
                           /\ Return(ErrorResponse(500))
                           /\ UNCHANGED << sorted_experts, paginated_experts >>
                      ELSE /\ sorted_experts' = SortedDesc(expert_scores', << >>)
                           /\ paginated_experts' =
                                 Paginate(sorted_experts', request.page, request.page_size)
                           /\ IF paginated_experts' = << >>
                              THEN \* lines 374-383
                                   Return([NoResponse EXCEPT !.status = 200,
                                                             !.kind = "empty_page"])
                              ELSE /\ pc' = "detail"
                                   /\ UNCHANGED << response, session >>
    /\ UNCHANGED << tables, request, effective_config, resolver, shared >>
    /\ UNCHANGED elsewhere

(***************************************************************************)
(* post, lines 385-609: the experts of the page are loaded and the         *)
(* response is built                                                       *)
(***************************************************************************)
\* line 587
TotalPages(total_count, page_size) ==
    PyFloorDiv(total_count + page_size - 1, page_size)

LoadDetails ==
    /\ pc = "detail"
    /\ calls' = Append(calls, "detail")
    /\ LET missing == \E i \in 1..Len(paginated_experts) :
                         paginated_experts[i].expert_id \notin expert
           unrounded == \E i \in 1..Len(paginated_experts) :
                           paginated_experts[i].score.cx
       IN  IF missing \/ unrounded
           THEN \* next() or round() raises: lines 611-615
                Return(ErrorResponse(500))
           ELSE Return([status |-> 200,
                        kind |-> "results",
                        experts |-> [i \in 1..Len(paginated_experts) |->
                                        [id |-> paginated_experts[i].expert_id,
                                         total_score |-> paginated_experts[i].score.v]],
                        total_experts |-> Len(expert_scores),
                        paging |-> TRUE,
                        page |-> request.page,
                        page_size |-> request.page_size,
                        total_pages |-> TotalPages(Len(expert_scores), request.page_size)])
    /\ UNCHANGED << tables, request, effective_config, resolver, scoring, shared >>
    /\ UNCHANGED elsewhere

(***************************************************************************)
(* merge_config on its own: the request is one with a settings dict drawn  *)
(* from OverrideMaps, and the step is line 113.                            *)
(***************************************************************************)
\* a JSON request with a query text and settings, page and page_size absent
JsonRequest(st) ==
    [content_type |-> "application/json", text |-> "query",
     page |-> 1, page_size |-> SEARCH_CONFIG.default_page_size,
     settings |-> st]

MergeInit ==
    /\ TablesInit
    /\ SharedInit
    /\ pc = "merge"
    /\ \E m \in OverrideMaps : request = JsonRequest(JDict(m))
    /\ session = "open"
    /\ LocalsInit
    /\ ElsewhereInit

MergeConfig ==
    /\ pc = "merge"
    /\ IF MergeRaises(request.settings)
       THEN \* lines 611-615
            /\ Return(ErrorResponse(500))
            /\ UNCHANGED << effective_config, search_config >>
       ELSE /\ effective_config' = merge_config(search_config, request.settings)
            /\ search_config' = DefaultsAfterMerge(search_config, effective_config')
            /\ pc' = "merged"
            /\ UNCHANGED << response, session >>
    /\ UNCHANGED << tables, request, calls, resolver, scoring, served >>
    /\ UNCHANGED elsewhere

MergeNext == MergeConfig

MergeSpec == MergeInit /\ [][MergeNext]_vars

(***************************************************************************)
(* Requests one after another and side by side, as far as line 113: the    *)
(* model follows one request at a time; OtherRequest is line 113 of a      *)
(* request of another client running at the same time.                     *)
(***************************************************************************)
SessionsInit ==
    /\ TablesInit
    /\ SharedInit
    /\ pc = "merge"
    /\ \E st \in SessionSettings : request = JsonRequest(st)
    /\ session = "open"
    /\ LocalsInit
    /\ ElsewhereInit

OtherRequest ==
    /\ \E st \in SessionSettings :
          /\ ~MergeRaises(st)
          /\ search_config' =
                DefaultsAfterMerge(search_config, merge_config(search_config, st))
    /\ UNCHANGED << tables, pc, request, session, effective_config, calls,
                    resolver, scoring, response, served >>
    /\ UNCHANGED elsewhere

\* the request followed is left, and the next one arrives
NewRequest ==
    /\ pc \in {"merged", "done"}
    /\ served < MaxRequests
    /\ served' = served + 1
    /\ \E st \in SessionSettings : request' = JsonRequest(st)
    /\ pc' = "merge"
    /\ session' = "open"
    /\ effective_config' = SEARCH_CONFIG
    /\ response' = NoResponse
    /\ UNCHANGED << tables, calls, resolver, scoring, search_config >>
    /\ UNCHANGED elsewhere

SessionsNext ==
    \/ MergeConfig
    \/ OtherRequest
    \/ NewRequest

SessionsSpec == SessionsInit /\ [][SessionsNext]_vars

(***************************************************************************)
(* A request beside a writer: between the scoring query (line 306) and the *)
(* detail query (line 389) another client deletes one of the rows the      *)
(* scoring query returned, through the DELETE routes.  session.delete      *)
(* cascades from an expert to its experiences (models.py, line 35) and     *)
(* removes the rows of experience_attribute of what it deletes.            *)
(***************************************************************************)
RaceInit ==
    /\ TablesInit
    /\ SharedInit
    /\ pc = "llm"
    /\ request = JsonRequest(JDict(<< >>))
    /\ session = "open"
    /\ LocalsInit
    /\ ElsewhereInit

\* the writer may act: the rows are scored, and nothing was deleted yet
WriterTurn ==
    /\ pc = "detail"
    /\ expert = InitExpert
    /\ DOMAIN experience = DOMAIN InitExperience
    /\ DOMAIN attribute = DOMAIN InitAttribute

\* routes/Experts.py, ExpertResource.delete
ExpertDelete ==
    /\ WriterTurn
    /\ \E i \in 1..Len(results) :
          LET kept == { x \in DOMAIN experience :
                          experience[x].expert_id # results[i].expert_id }
          IN  /\ expert' = expert \ {results[i].expert_id}
              /\ experience' = [x \in kept |-> experience[x]]
              /\ experience_attribute' = { q \in experience_attribute : q[1] \in kept }
    /\ UNCHANGED << attribute, pc, request, session, effective_config, calls,
                    resolver, scoring, response, shared >>
    /\ UNCHANGED elsewhere

\* routes/experiences.py, ExperienceResource.delete
ExperienceDelete ==
    /\ WriterTurn
    /\ \E i \in 1..Len(results) :
          LET kept == DOMAIN experience \ {results[i].experience_id}
          IN  /\ experience' = [x \in kept |-> experience[x]]
              /\ experience_attribute' = { q \in experience_attribute : q[1] \in kept }
    /\ UNCHANGED << attribute, expert, pc, request, session, effective_config,
                    calls, resolver, scoring, response, shared >>
    /\ UNCHANGED elsewhere

\* routes/attributes.py, AttributeResource.delete
AttributeDelete ==
    /\ WriterTurn
    /\ \E i \in 1..Len(results) :
          LET kept == DOMAIN attribute \ {results[i].attribute_id}
          IN  /\ attribute' = [a \in kept |-> attribute[a]]
              /\ experience_attribute' = { q \in experience_attribute : q[2] \in kept }
    /\ UNCHANGED << experience, expert, pc, request, session, effective_config,
                    calls, resolver, scoring, response, shared >>
    /\ UNCHANGED elsewhere

RaceNext ==
    \/ LLMExtract
    \/ BatchEmbed
    \/ MatchTerm
    \/ Score
    \/ LoadDetails
    \/ ExpertDelete
    \/ ExperienceDelete
    \/ AttributeDelete

RaceSpec == RaceInit /\ [][RaceNext]_vars

(***************************************************************************)
(* The scoring step on its own: the request has matched the term "x" to    *)
(* the agency NASA; the recency_decay_factor of the effective config is    *)
(* any value of [0, 1] and experiences 1 and 2 ended any number of days    *)
(* of Ages ago.                                                            *)
(***************************************************************************)
RecencyInit ==
    /\ attribute = InitAttribute
    /\ \E a1 \in Ages, a2 \in Ages :
          experience =
             [id \in DOMAIN InitExperience |->
                 LET age == IF id = 1 THEN a1 ELSE IF id = 2 THEN a2 ELSE 0
                 IN  [expert_id |-> InitExperience[id].expert_id,
                      start_date |-> Today - age - Years(4),
                      end_date |-> Today - age]]
    /\ experience_attribute = InitExperienceAttribute
    /\ expert = InitExpert
    /\ SharedInit
    /\ pc = "score"
    /\ request = JsonRequest(JDict(<< >>))
    /\ session = "open"
    /\ \E f \in 0..Scale :
          effective_config = [SEARCH_CONFIG EXCEPT !.recency_decay_factor = f]
    /\ calls = << "llm", "embed", "match" >>
    /\ llm_extracted = [t \in {"agency"} |-> << "x" >>]
    /\ all_terms = << "x" >>
    /\ term_to_type = [t \in {"x"} |-> "agency"]
    /\ embeddings = << EmbeddingOf("x") >>
    /\ term_idx = 2
    /\ search_attributes =
          [t \in {"agency"} |->
              << [id |-> 1, name |-> InitAttribute[1].name,
                  similarity |-> Similarity(InitAttribute[1].embedding, EmbeddingOf("x")),
                  extracted_term |-> "x"] >>]
    /\ extracted_attributes =
          [t \in {"agency"} |->
              << MatchedEntry("x", 1, InitAttribute[1].name,
                              Similarity(InitAttribute[1].embedding, EmbeddingOf("x")),
                              "agency") >>]
    /\ all_attribute_ids = << >>
    /\ attr_similarity = << >>
    /\ results = << >>
    /\ expert_scores = << >>
    /\ experience_details = << >>
    /\ sorted_experts = << >>
    /\ paginated_experts = << >>
    /\ response = NoResponse
    /\ ElsewhereInit

RecencyNext ==
    \/ Score
    \/ LoadDetails

RecencySpec == RecencyInit /\ [][RecencyNext]_vars

Next ==
    \/ Receive
    \/ LLMExtract
    \/ BatchEmbed
    \/ MatchTerm
    \/ Score
    \/ LoadDetails

Spec == Init /\ [][Next]_vars

(***************************************************************************)
(* lib/embedding_service.py, cosine_similarity: an argument is None, a     *)
(* list of numbers (a JList of integers here) or something np.array cannot *)
(* turn into floats.  The result is a float in hundredths.                 *)
(***************************************************************************)
MaxDim == 2

Components == {0 - 1, 0, 1, 2}

\* a value np.array(..., dtype=float) raises ValueError on
NotAVector == JStr

IsVector(x) == x.t = "list"

EmbeddingInputs ==
    {JNone, NotAVector}
      \cup { JList(l) : l \in UNION { [1..n -> Components] : n \in 0..MaxDim } }

\* np.dot of two vectors of the same length
RECURSIVE np_dot(_, _)
np_dot(vec1, vec2) ==
    IF vec1 = << >> THEN 0
    ELSE Head(vec1) * Head(vec2) + np_dot(Tail(vec1), Tail(vec2))

\* np.linalg.norm, in hundredths
np_norm(vec) == ISqrt(np_dot(vec, vec) * Scale * Scale)

\* a variant of ZeroNorm: the test of line 106 never succeeds
ZeroNormNever(norm1, norm2) == FALSE

\* line 106
ZeroNorm(norm1, norm2) == norm1 = 0 \/ norm2 = 0

\* lines 87-121; NaN is what numpy gives for 0.0 / 0.0
cosine_similarity(e1, e2) ==
    IF e1.t = "none" \/ e2.t = "none" THEN [raises |-> FALSE, v |-> 0]
    ELSE IF ~IsVector(e1) \/ ~IsVector(e2)
    THEN \* np.array raises, lines 115-121 return 0.0
         [raises |-> FALSE, v |-> 0]
    ELSE IF Len(e1.items) # Len(e2.items) THEN [raises |-> FALSE, v |-> 0]
    ELSE LET vec1 == e1.items
             vec2 == e2.items
             norm1 == np_norm(vec1)
             norm2 == np_norm(vec2)
         IN  IF ZeroNorm(norm1, norm2) THEN [raises |-> FALSE, v |-> 0]
             ELSE IF norm1 * norm2 = 0 THEN [raises |-> FALSE, v |-> NaN]
             ELSE [raises |-> FALSE,
                   v |-> (np_dot(vec1, vec2) * Scale * Scale * Scale)
                            \div (norm1 * norm2)]

CosineInit ==
    /\ TablesInit
    /\ SharedInit
    /\ pc = "cosine"
    /\ request = NoRequest
    /\ session = "none"
    /\ LocalsInit
    /\ embedding1 \in EmbeddingInputs
    /\ embedding2 \in EmbeddingInputs
    /\ returned = NoCall
    /\ WritersInit
    /\ PromptsInit

CosineSimilarity ==
    /\ pc = "cosine"
    /\ returned' = cosine_similarity(embedding1, embedding2)
    /\ pc' = "returned"
    /\ UNCHANGED << tables, request, session, effective_config, calls, resolver,
                    scoring, response, shared, embedding1, embedding2, writers,
                    prompts >>

CosineNext == CosineSimilarity

CosineSpec == CosineInit /\ [][CosineNext]_vars

(***************************************************************************)
(* The request of a query over a store in which the attributes of some     *)
(* types have no embedding yet (attribute.embedding is nullable,           *)
(* models.py): the handler from the LLM call on.                           *)
(***************************************************************************)
SparseInit ==
    /\ \E nulled \in SUBSET {"agency", "role", "seniority"} :
          attribute = [id \in DOMAIN InitAttribute |->
                          IF InitAttribute[id].type \in nulled
                          THEN [InitAttribute[id] EXCEPT !.embedding = NoEmbedding]
                          ELSE InitAttribute[id]]
    /\ experience = InitExperience
    /\ experience_attribute = InitExperienceAttribute
    /\ expert = InitExpert
    /\ SharedInit
    /\ pc = "llm"
    /\ request = JsonRequest(JDict(<< >>))
    /\ session = "open"
    /\ LocalsInit
    /\ ElsewhereInit

SparseNext ==
    \/ LLMExtract
    \/ BatchEmbed
    \/ MatchTerm
    \/ Score
    \/ LoadDetails

SparseSpec == SparseInit /\ [][SparseNext]_vars

(***************************************************************************)
(* The write routes and the loaders over the tables.  A row of attribute   *)
(* is [type, name, summary, embedding, parent_id, depth], parent_id 0      *)
(* being NULL; an embedding is the text it was generated from.  A row of   *)
(* experience is [expert_id, start_date, end_date].  The database enforces *)
(* the declarations of models.py: the unique index on (type, name) and the *)
(* columns that are not nullable.  served counts the requests of the       *)
(* resource routes answered so far.                                        *)
(***************************************************************************)
MaxAttributes == 2
MaxExperiences == 2
MaxExperts == 2
MaxCsvRows == 2
MaxWrites == 2
MaxIngestExperiences == 1
MaxIngestAttributes == 2

\* a JSON null or a missing value, and a key that is not in the body
None == "<None>"
Absent == "<absent>"

AttrTypes == {"agency", "role"}
AttrNames == {"NASA", "nasa"}
Summaries == {"s"}

\* lower(), as ILIKE compares
Lower(name) == IF name = "NASA" THEN "nasa" ELSE name

\* embedding_service.py, lines 72-74: the embedding of the combined text
generate_attribute_embedding(name, type_str, summary) == << type_str, name, summary >>

\* a variant of UniqueViolation: the table has no unique index
UniqueViolationNever(rows, type, name, self) == FALSE

\* models.py, line 71: the row would be the second one with its (type, name)
UniqueViolation(rows, type, name, self) ==
    \E id \in DOMAIN rows :
        id # self /\ rows[id].type = type /\ rows[id].name = name

\* models.py, lines 78-80: name, type and summary are NOT NULL
NotNullViolation(row) == row.name = None \/ row.type = None \/ row.summary = None

\* models.py, lines 158-169; works tells whether the embedding service answers
generate_embedding_before_insert(target, works) ==
    IF target.embedding = NoEmbedding /\ works
    THEN [target EXCEPT !.embedding =
              generate_attribute_embedding(target.name, target.type, target.summary)]
    ELSE target

\* models.py, lines 171-190: old is the row as loaded
generate_embedding_before_update(old, target, works) ==
    LET name_changed == target.name # old.name
        type_changed == target.type # old.type
        summary_changed == target.summary # old.summary
        embedding_changed == target.embedding # old.embedding
    IN  IF (name_changed \/ type_changed \/ summary_changed) /\ ~embedding_changed /\ works
        THEN [target EXCEPT !.embedding =
                  generate_attribute_embedding(target.name, target.type, target.summary)]
        ELSE target

\* function f with the pair k, v added
Put(f, k, v) == [x \in DOMAIN f \cup {k} |-> IF x = k THEN v ELSE f[x]]

\* the two functions together
Merge(f, g) == [x \in DOMAIN f \cup DOMAIN g |-> IF x \in DOMAIN g THEN g[x] ELSE f[x]]

\* the rows of attribute the ingestion sees: the committed ones and its own
VisibleAttribute == Merge(attribute, ingest.pending_attribute)

\* the experience_ids of a body: not given, or a list of at most one id
ExperienceIdLists ==
    {[given |-> FALSE, ids |-> {}], [given |-> TRUE, ids |-> {}]}
      \cup { [given |-> TRUE, ids |-> {x}] : x \in DOMAIN experience }

\* Experience.id.in_(experience_ids), as links of the attribute
LinksOf(attr_id, experience_ids) ==
    { << x, attr_id >> : x \in experience_ids.ids \cap DOMAIN experience }

\* routes/attributes.py, lines 45-76 and 226-257; works tells whether the
\* embedding service answers during the request.  An insert that meets a row
\* another transaction has flushed and not committed waits for it.
AttributePostWith(works) ==
    /\ served < MaxWrites
    /\ served' = served + 1
    /\ next_id.attribute <= MaxAttributes
    /\ \E name \in AttrNames \cup {None}, type \in AttrTypes, summary \in Summaries,
          experience_ids \in ExperienceIdLists :
          LET target == [type |-> type, name |-> name, summary |-> summary,
                         embedding |-> NoEmbedding, parent_id |-> 0, depth |-> 0]
              row == generate_embedding_before_insert(target, works)
          IN  /\ ~UniqueViolation(ingest.pending_attribute, type, name, 0)
              /\ IF NotNullViolation(row) \/ UniqueViolation(attribute, type, name, 0)
                 THEN \* lines 72-74: rollback
                      UNCHANGED << attribute, experience_attribute >>
                 ELSE /\ attribute' = Put(attribute, next_id.attribute, row)
                      /\ experience_attribute' =
                            experience_attribute \cup LinksOf(next_id.attribute, experience_ids)
    /\ next_id' = [next_id EXCEPT !.attribute = @ + 1]
    /\ UNCHANGED << experience, expert, ingest, loader >>
    /\ UNCHANGED << pc, request, session, effective_config, calls, resolver,
                    scoring, response, search_config, cosine, prompts >>

AttributePost == AttributePostWith(TRUE)

\* the same request while the embedding service is down
AttributePostOutage == AttributePostWith(FALSE)

\* routes/attributes.py, lines 78-109
AttributePutWith(works) ==
    /\ served < MaxWrites
    /\ served' = served + 1
    /\ \E attribute_id \in DOMAIN attribute,
          name \in AttrNames \cup {None, Absent}, type \in AttrTypes \cup {Absent},
          summary \in Summaries \cup {Absent},
          experience_ids \in ExperienceIdLists :
          LET old == attribute[attribute_id]
              target == [old EXCEPT
                            !.name = IF name = Absent THEN @ ELSE name,
                            !.type = IF type = Absent THEN @ ELSE type,
                            !.summary = IF summary = Absent THEN @ ELSE summary]
              row == generate_embedding_before_update(old, target, works)
          IN  /\ ~UniqueViolation(ingest.pending_attribute, target.type, target.name, 0)
              /\ IF \/ NotNullViolation(row)
                    \/ UniqueViolation(attribute, row.type, row.name, attribute_id)
                 THEN \* lines 105-107: rollback
                      UNCHANGED << attribute, experience_attribute >>
                 ELSE /\ attribute' = [attribute EXCEPT ![attribute_id] = row]
                      /\ experience_attribute' =
                            IF ~experience_ids.given THEN experience_attribute
                            ELSE { q \in experience_attribute : q[2] # attribute_id }
                                    \cup LinksOf(attribute_id, experience_ids)
    /\ UNCHANGED << experience, expert, next_id, ingest, loader >>
    /\ UNCHANGED << pc, request, session, effective_config, calls, resolver,
                    scoring, response, search_config, cosine, prompts >>

AttributePut == AttributePutWith(TRUE)

\* the same request while the embedding service is down
AttributePutOutage == AttributePutWith(FALSE)

(***************************************************************************)
(* data/roles/load.py and data/agencies/load.py: one row of the CSV file   *)
(* at a time, the rows of a file sorted by level (line 56 of the agencies  *)
(* loader).  A hierarchy_path is the sequence of its parts.  The embedding *)
(* service answers during the run.                                         *)
(***************************************************************************)
\* f"{name}: {summary}" (roles, line 73) and
\* f"{canonical_name}: {formatted_summary}" (agencies, line 115)
CsvSummary(name) == IF name = "NASA" THEN "NASA: s" ELSE "nasa: s"

\* filter_by(type=..., name=...).first(): 0 when there is no such row
FilterBy(type, name) ==
    IF \E id \in DOMAIN attribute : attribute[id].type = type /\ attribute[id].name = name
    THEN CHOOSE id \in DOMAIN attribute :
            attribute[id].type = type /\ attribute[id].name = name
    ELSE 0

\* the loader's state after a row: when the file is exhausted the script
\* ends and its cache goes with it
AfterRow(rows, level, agency_cache) ==
    IF rows >= MaxCsvRows
    THEN [NoLoader EXCEPT !.rows = rows]
    ELSE [rows |-> rows, level |-> level, agency_cache |-> agency_cache]

\* roles loader, lines 55-83, for a row [name, depth]
LoadRole ==
    /\ loader.rows < MaxCsvRows
    /\ next_id.attribute <= MaxAttributes
    /\ \E name \in AttrNames, depth \in 0..1 :
          LET existing == FilterBy("role", name)
              target == [type |-> "role", name |-> name, summary |-> CsvSummary(name),
                         embedding |-> NoEmbedding, parent_id |-> 0, depth |-> depth]
          IN  /\ ~UniqueViolation(ingest.pending_attribute, "role", name, 0)
              /\ IF existing # 0
                 THEN UNCHANGED << attribute, next_id >>
                 ELSE /\ attribute' =
                            Put(attribute, next_id.attribute, generate_embedding_before_insert(target, TRUE))
                      /\ next_id' = [next_id EXCEPT !.attribute = @ + 1]
              /\ loader' = AfterRow(loader.rows + 1, loader.level, loader.agency_cache)
    /\ UNCHANGED << experience, experience_attribute, expert, ingest >>
    /\ UNCHANGED << pc, request, session, effective_config, calls, resolver,
                    scoring, response, shared, cosine, prompts >>

\* the hierarchy paths of the file: a name alone or under a parent
HierarchyPaths == { << "NASA" >>, << "nasa" >>, << "NASA", "nasa" >> }

\* agency_cache.get(path): 0 when the path is not cached
CacheGet(cache, path) == IF path \in DOMAIN cache THEN cache[path] ELSE 0

\* agencies loader, lines 60-129, for a row [canonical_name, hierarchy_path,
\* level]
LoadAgency ==
    /\ loader.rows < MaxCsvRows
    /\ next_id.attribute <= MaxAttributes
    /\ \E hierarchy_path \in HierarchyPaths, level \in 1..2 :
          LET canonical_name == hierarchy_path[Len(hierarchy_path)]
              existing == FilterBy("agency", canonical_name)
              depth == level - 1
              parent_path == SubSeq(hierarchy_path, 1, Len(hierarchy_path) - 1)
              cached == CacheGet(loader.agency_cache, parent_path)
              looked_up == Len(hierarchy_path) >= 2 /\ depth > 0
              parent_attr ==
                  IF ~looked_up THEN 0
                  ELSE IF cached # 0 THEN cached
                  ELSE FilterBy("agency", hierarchy_path[Len(hierarchy_path) - 1])
              target == [type |-> "agency", name |-> canonical_name,
                         summary |-> CsvSummary(canonical_name),
                         embedding |-> NoEmbedding, parent_id |-> parent_attr,
                         depth |-> depth]
              cache1 == IF looked_up /\ parent_attr # 0
                        THEN Put(loader.agency_cache, parent_path, parent_attr)
                        ELSE loader.agency_cache
          IN  /\ level >= loader.level
              /\ ~UniqueViolation(ingest.pending_attribute, "agency", canonical_name, 0)
              /\ IF existing # 0
                 THEN /\ loader' = AfterRow(loader.rows + 1, level,
                                             Put(loader.agency_cache, hierarchy_path, existing))
                      /\ UNCHANGED << attribute, next_id >>
                 ELSE /\ attribute' =
                            Put(attribute, next_id.attribute, generate_embedding_before_insert(target, TRUE))
                      /\ next_id' = [next_id EXCEPT !.attribute = @ + 1]
                      /\ loader' = AfterRow(loader.rows + 1, level,
                                             Put(cache1, hierarchy_path, next_id.attribute))
    /\ UNCHANGED << experience, experience_attribute, expert, ingest >>
    /\ UNCHANGED << pc, request, session, effective_config, calls, resolver,
                    scoring, response, shared, cosine, prompts >>

(***************************************************************************)
(* routes/experiences.py and the JSON branch of routes/Experts.py.  A date *)
(* of a body is a string; dates are day numbers.                           *)
(***************************************************************************)
\* the date strings of a body; "soon" is not an ISO date
DateStrings == {"2020-01-01", "2021-01-01", "soon"}

\* datetime.fromisoformat raises ValueError on a string that is no ISO date
\* and TypeError on None
FromIsoFormatRaises(date_string) == date_string \notin {"2020-01-01", "2021-01-01"}

\* datetime.fromisoformat(...).date()
FromIsoFormat(date_string) ==
    IF date_string = "2020-01-01" THEN Today - Years(5) ELSE Today - Years(4)

\* routes/Experts.py, lines 79-95 and 366-382
ExpertPost ==
    /\ served < MaxWrites
    /\ served' = served + 1
    /\ next_id.expert <= MaxExperts
    /\ \E name \in {"Ann", None} :
          IF name = None
          THEN \* expert.name is NOT NULL: lines 271-280, rollback
               UNCHANGED expert
          ELSE expert' = expert \cup {next_id.expert}
    /\ next_id' = [next_id EXCEPT !.expert = @ + 1]
    /\ UNCHANGED << attribute, experience, experience_attribute, ingest, loader >>
    /\ UNCHANGED << pc, request, session, effective_config, calls, resolver,
                    scoring, response, search_config, cosine, prompts >>

\* routes/experiences.py, lines 46-74
ExperiencePost ==
    /\ served < MaxWrites
    /\ served' = served + 1
    /\ next_id.experience <= MaxExperiences
    /\ \E expert_id \in expert \cup {0},
          start_date \in DateStrings \cup {None}, end_date \in DateStrings \cup {None} :
          IF \/ expert_id \notin expert
             \/ FromIsoFormatRaises(start_date) \/ FromIsoFormatRaises(end_date)
          THEN \* line 53, or lines 70-72
               UNCHANGED << experience, next_id >>
          ELSE /\ experience' = Put(experience, next_id.experience,
                                    [expert_id |-> expert_id,
                                     start_date |-> FromIsoFormat(start_date),
                                     end_date |-> FromIsoFormat(end_date)])
               /\ next_id' = [next_id EXCEPT !.experience = @ + 1]
    /\ UNCHANGED << attribute, experience_attribute, expert, ingest, loader >>
    /\ UNCHANGED << pc, request, session, effective_config, calls, resolver,
                    scoring, response, search_config, cosine, prompts >>

\* routes/experiences.py, lines 76-102: a date that is absent, null or the
\* empty string is left as it is
ExperiencePut ==
    /\ served < MaxWrites
    /\ served' = served + 1
    /\ \E experience_id \in DOMAIN experience,
          start_date \in DateStrings \cup {Absent}, end_date \in DateStrings \cup {Absent} :
          IF \/ start_date # Absent /\ FromIsoFormatRaises(start_date)
             \/ end_date # Absent /\ FromIsoFormatRaises(end_date)
          THEN \* lines 98-100: rollback
               UNCHANGED experience
          ELSE experience' =
                 [experience EXCEPT
                    ![experience_id].start_date =
                        IF start_date = Absent THEN @ ELSE FromIsoFormat(start_date),
                    ![experience_id].end_date =
                        IF end_date = Absent THEN @ ELSE FromIsoFormat(end_date)]
    /\ UNCHANGED << attribute, experience_attribute, expert, next_id, ingest, loader >>
    /\ UNCHANGED << pc, request, session, effective_config, calls, resolver,
                    scoring, response, search_config, cosine, prompts >>

(***************************************************************************)
(* routes/Experts.py, the text branch of post (lines 97-282 and 384-562):  *)
(* one transaction in several steps.  What the LLM extracted is drawn item *)
(* by item as the loops reach it.  The rows flushed are pending until the  *)
(* commit of line 256; queries of the session see them.  The embedding     *)
(* service answers during the request.                                     *)
(***************************************************************************)
NoAttr == [name |-> "", type |-> "", summary |-> ""]

IngestEnded(status, cause) ==
    [NoIngest EXCEPT !.state = "done", !.status = status, !.cause = cause,
                     !.expert = ingest.expert,
                     !.created_experience = ingest.created_experience,
                     !.created_attribute = ingest.created_attribute]

\* a variant of IngestRollback: the expert flushed at line 147 stays
IngestRollbackPartial(cause) ==
    /\ ingest' = IngestEnded(400, cause)
    /\ expert' = expert \cup {ingest.expert}
    /\ UNCHANGED << attribute, experience, experience_attribute >>

\* lines 271-280: session.rollback() and the 400 response
IngestRollback(cause) ==
    /\ ingest' = IngestEnded(400, cause)
    /\ UNCHANGED << attribute, experience, experience_attribute, expert >>

\* lines 97-147: the text is read, the LLM called and the expert flushed
IngestStart ==
    /\ ingest.state = "idle"
    /\ next_id.expert <= MaxExperts
    /\ \E outcome \in {"empty text", "LLM extraction failed", "Expert creation failed", "flushed"} :
          IF outcome = "flushed"
          THEN /\ ingest' = [NoIngest EXCEPT !.state = "open", !.phase = "experience",
                                             !.expert = next_id.expert]
               /\ next_id' = [next_id EXCEPT !.expert = @ + 1]
          ELSE \* lines 101, 119 and 145
               /\ ingest' = [NoIngest EXCEPT !.state = "done", !.status = 400,
                                             !.cause = outcome]
               /\ UNCHANGED next_id
    /\ UNCHANGED << tables, loader >>
    /\ UNCHANGED << pc, request, session, effective_config, calls, resolver,
                    scoring, response, shared, cosine, prompts >>

\* the strings taken as today's date (line 168)
PresentWords == {"present"}

\* the dates the LLM extracted for an experience
ExtractedStartDates == {"2021-01-01", "soon"}
ExtractedEndDates == {"2020-01-01", "present", "soon"}

\* lines 155-180: the next experience is parsed and flushed
IngestExperience ==
    /\ ingest.state = "open"
    /\ ingest.phase = "experience"
    /\ ingest.experiences < MaxIngestExperiences
    /\ next_id.experience <= MaxExperiences
    /\ \E start_date_str \in ExtractedStartDates, end_date_str \in ExtractedEndDates :
          IF \/ FromIsoFormatRaises(start_date_str)
             \/ end_date_str \notin PresentWords /\ FromIsoFormatRaises(end_date_str)
          THEN /\ IngestRollback("ValueError")
               /\ UNCHANGED next_id
          ELSE /\ ingest' =
                    [ingest EXCEPT
                       !.phase = "attribute",
                       !.experience = next_id.experience,
                       !.experiences = @ + 1,
                       !.attributes = 0,
                       !.created_experience = @ \cup {next_id.experience},
                       !.pending_experience =
                           Put(@, next_id.experience,
                               [expert_id |-> ingest.expert,
                                start_date |-> FromIsoFormat(start_date_str),
                                end_date |-> IF end_date_str \in PresentWords THEN Today
                                             ELSE FromIsoFormat(end_date_str)])]
               /\ next_id' = [next_id EXCEPT !.experience = @ + 1]
               /\ UNCHANGED tables
    /\ UNCHANGED loader
    /\ UNCHANGED << pc, request, session, effective_config, calls, resolver,
                    scoring, response, shared, cosine, prompts >>

\* lines 186-213: the next attribute of the experience is looked up with
\* ILIKE and, when a row is found, linked
IngestLookup ==
    /\ ingest.state = "open"
    /\ ingest.phase = "attribute"
    /\ ingest.attributes < MaxIngestAttributes
    /\ \E attr_name \in AttrNames \cup {""}, attr_type \in AttrTypes :
          LET found == { id \in DOMAIN VisibleAttribute :
                           /\ Lower(VisibleAttribute[id].name) = Lower(attr_name)
                           /\ VisibleAttribute[id].type = attr_type }
          IN  IF attr_name = ""
              THEN \* lines 193-195
                   ingest' = [ingest EXCEPT !.attributes = @ + 1]
              ELSE IF found # {}
              THEN \E existing_attr \in found :
                      ingest' = [ingest EXCEPT
                                    !.attributes = @ + 1,
                                    !.pending_links = @ \cup {<< ingest.experience, existing_attr >>}]
              ELSE ingest' = [ingest EXCEPT
                                 !.phase = "insert",
                                 !.new_attr = [name |-> attr_name, type |-> attr_type,
                                               summary |-> "s"]]
    /\ UNCHANGED << tables, next_id, loader >>
    /\ UNCHANGED << pc, request, session, effective_config, calls, resolver,
                    scoring, response, shared, cosine, prompts >>

\* lines 214-245: the attribute that was not found is inserted and linked
IngestInsert ==
    /\ ingest.state = "open"
    /\ ingest.phase = "insert"
    /\ LET a == ingest.new_attr
           row == [type |-> a.type, name |-> a.name, summary |-> a.summary,
                   embedding |-> generate_attribute_embedding(a.name, a.type, a.summary),
                   parent_id |-> 0, depth |-> 0]
       IN  IF UniqueViolation(attribute, a.type, a.name, 0)
           THEN IngestRollback("IntegrityError")
           ELSE /\ next_id.attribute <= MaxAttributes
                /\ ingest' =
                     [ingest EXCEPT
                        !.phase = "attribute",
                        !.attributes = @ + 1,
                        !.new_attr = NoAttr,
                        !.created_attribute = @ \cup {next_id.attribute},
                        !.pending_attribute = Put(@, next_id.attribute, row),
                        !.pending_links = @ \cup {<< ingest.experience, next_id.attribute >>}]
                /\ UNCHANGED tables
    /\ next_id' = [next_id EXCEPT !.attribute = @ + 1]
    /\ UNCHANGED loader
    /\ UNCHANGED << pc, request, session, effective_config, calls, resolver,
                    scoring, response, shared, cosine, prompts >>

\* line 186: the attributes of the experience are exhausted
IngestEndAttributes ==
    /\ ingest.state = "open"
    /\ ingest.phase = "attribute"
    /\ ingest' = [ingest EXCEPT !.phase = "experience"]
    /\ UNCHANGED << tables, next_id, loader >>
    /\ UNCHANGED << pc, request, session, effective_config, calls, resolver,
                    scoring, response, shared, cosine, prompts >>

\* line 256, the experiences being exhausted: session.commit()
IngestCommit ==
    /\ ingest.state = "open"
    /\ ingest.phase = "experience"
    /\ expert' = expert \cup {ingest.expert}
    /\ experience' = Merge(experience, ingest.pending_experience)
    /\ attribute' = Merge(attribute, ingest.pending_attribute)
    /\ experience_attribute' = experience_attribute \cup ingest.pending_links
    /\ ingest' = IngestEnded(201, "")
    /\ UNCHANGED << next_id, loader >>
    /\ UNCHANGED << pc, request, session, effective_config, calls, resolver,
                    scoring, response, shared, cosine, prompts >>

StoreInit ==
    /\ attribute = << >>
    /\ experience = << >>
    /\ experience_attribute = {}
    /\ expert = {}
    /\ SharedInit
    /\ pc = "store"
    /\ request = NoRequest
    /\ session = "none"
    /\ LocalsInit
    /\ ElsewhereInit

\* the ingestion, step by step
Ingest ==
    \/ IngestStart
    \/ IngestExperience
    \/ IngestLookup
    \/ IngestInsert
    \/ IngestEndAttributes
    \/ IngestCommit

\* the writers of the attribute table
AttributeNext ==
    \/ AttributePost
    \/ AttributePut
    \/ LoadRole
    \/ LoadAgency
    \/ Ingest

AttributeSpec == StoreInit /\ [][AttributeNext]_vars

\* the attribute routes, the embedding service answering or not, over rows
\* of their own and of the loaders
UpdateNext ==
    \/ AttributePost
    \/ AttributePostOutage
    \/ AttributePut
    \/ AttributePutOutage
    \/ LoadRole
    \/ LoadAgency

UpdateSpec == StoreInit /\ [][UpdateNext]_vars

\* the loaders, over a table the route may have written to
LoaderNext ==
    \/ LoadRole
    \/ LoadAgency
    \/ AttributePost

LoaderSpec == StoreInit /\ [][LoaderNext]_vars

\* the ingestion beside the attribute route
IngestNext ==
    \/ Ingest
    \/ AttributePost

IngestSpec == StoreInit /\ [][IngestNext]_vars

\* the writers of the experience table
ExperienceNext ==
    \/ ExpertPost
    \/ ExperiencePost
    \/ ExperiencePut
    \/ IngestStart
    \/ IngestExperience
    \/ IngestEndAttributes
    \/ IngestCommit

ExperienceSpec == StoreInit /\ [][ExperienceNext]_vars

(***************************************************************************)
(* routes/prompts.py: the requests that create a version of a template and *)
(* that activate a version, statement by statement, each client with a     *)
(* session and a transaction of its own.  A row of prompt is               *)
(* [template_name, version_number, is_active_version].  A statement sees   *)
(* the rows committed when it starts.  An UPDATE locks the rows it changes *)
(* until its transaction ends; one that meets a row locked by another      *)
(* transaction waits and then tests the row again as committed.  The rows  *)
(* of one UPDATE are taken as locked together.  models.py declares no      *)
(* unique index on the table (lines 98-101).                               *)
(***************************************************************************)
MaxPrompts == 3

Templates == {"expert_extraction", "expert_search"}

\* order_by(Prompt.version_number.desc()).first(), as the version number or 0
LatestVersion(template_name) ==
    LET versions == { prompt[id].version_number :
                        id \in { x \in DOMAIN prompt : prompt[x].template_name = template_name } }
    IN  IF versions = {} THEN 0
        ELSE CHOOSE v \in versions : \A w \in versions : w <= v

\* the rows filter(template_name == ..., is_active_version == True) selects
ActiveVersions(template_name) ==
    { id \in DOMAIN prompt :
        prompt[id].template_name = template_name /\ prompt[id].is_active_version }

\* the rows locked by the transactions of the other clients
LockedByOthers(c) ==
    UNION { transaction[d].deactivated : d \in Clients \ {c} }

\* the table with the rows of ids set inactive
Deactivate(rows, ids) ==
    [id \in DOMAIN rows |->
        IF id \in ids THEN [rows[id] EXCEPT !.is_active_version = FALSE] ELSE rows[id]]

\* .update({'is_active_version': False}) of client c: done, or waiting for a lock
BulkUpdate(c, t) ==
    LET candidates == ActiveVersions(t.template_name)
    IN  IF candidates \cap LockedByOthers(c) = {}
        THEN [t EXCEPT !.phase = "commit", !.deactivated = candidates]
        ELSE [t EXCEPT !.phase = "waiting", !.candidates = candidates]

\* what the prompt routes leave alone
outside == << tables, pc, request, session, effective_config, calls, resolver,
             scoring, response, shared, cosine, ingest, loader >>

\* lines 81-87: the latest version is read and the next number computed
CreateRead(c) ==
    /\ transaction[c].phase = "idle"
    /\ next_id.prompt <= MaxPrompts
    /\ \E template_name \in Templates, is_active_version \in BOOLEAN :
          LET latest_version == LatestVersion(template_name)
              next_version == IF latest_version = 0 THEN 1 ELSE latest_version + 1
          IN  transaction' =
                [transaction EXCEPT ![c] =
                    [NoTransaction EXCEPT
                        !.kind = "create",
                        !.phase = IF is_active_version THEN "deactivate" ELSE "commit",
                        !.template_name = template_name,
                        !.next_version = next_version,
                        !.is_active_version = is_active_version]]
    /\ UNCHANGED << prompt, next_id >>
    /\ UNCHANGED outside

\* lines 90-95: the active versions of the template are set inactive
CreateDeactivate(c) ==
    /\ transaction[c].kind = "create"
    /\ transaction[c].phase = "deactivate"
    /\ transaction' = [transaction EXCEPT ![c] = BulkUpdate(c, @)]
    /\ UNCHANGED << prompt, next_id >>
    /\ UNCHANGED outside

\* lines 98-116: the new version is added and the transaction committed
CreateCommit(c) ==
    /\ transaction[c].kind = "create"
    /\ transaction[c].phase = "commit"
    /\ next_id.prompt <= MaxPrompts
    /\ prompt' = Put(Deactivate(prompt, transaction[c].deactivated), next_id.prompt,
                     [template_name |-> transaction[c].template_name,
                      version_number |-> transaction[c].next_version,
                      is_active_version |-> transaction[c].is_active_version])
    /\ next_id' = [next_id EXCEPT !.prompt = @ + 1]
    /\ transaction' = [transaction EXCEPT ![c] = [NoTransaction EXCEPT !.status = 201]]
    /\ UNCHANGED outside

\* lines 139-142: the version is read; 404 when there is none
ActivateRead(c) ==
    /\ transaction[c].phase = "idle"
    /\ \E prompt_id \in 1..MaxPrompts :
          IF prompt_id \notin DOMAIN prompt
          THEN transaction' = [transaction EXCEPT ![c] = [NoTransaction EXCEPT !.status = 404]]
          ELSE transaction' =
                 [transaction EXCEPT ![c] =
                     [NoTransaction EXCEPT
                         !.kind = "activate",
                         !.phase = "deactivate",
                         !.template_name = prompt[prompt_id].template_name,
                         !.prompt_id = prompt_id]]
    /\ UNCHANGED << prompt, next_id >>
    /\ UNCHANGED outside

\* lines 144-148: the active versions of the template are set inactive
ActivateDeactivate(c) ==
    /\ transaction[c].kind = "activate"
    /\ transaction[c].phase = "deactivate"
    /\ transaction' = [transaction EXCEPT ![c] = BulkUpdate(c, @)]
    /\ UNCHANGED << prompt, next_id >>
    /\ UNCHANGED outside

\* the UPDATE that waited goes on when the locks are released: the rows it
\* had selected are tested again as they are committed now
LockGranted(c) ==
    /\ transaction[c].phase = "waiting"
    /\ transaction[c].candidates \cap LockedByOthers(c) = {}
    /\ transaction' =
          [transaction EXCEPT
              ![c].phase = "commit",
              ![c].candidates = {},
              ![c].deactivated =
                  { id \in transaction[c].candidates : prompt[id].is_active_version }]
    /\ UNCHANGED << prompt, next_id >>
    /\ UNCHANGED outside

\* lines 150-154: the version is set active and the transaction committed;
\* the UPDATE of the flush waits for a lock on the row
ActivateCommit(c) ==
    /\ transaction[c].kind = "activate"
    /\ transaction[c].phase = "commit"
    /\ transaction[c].prompt_id \notin LockedByOthers(c)
    /\ prompt' = [Deactivate(prompt, transaction[c].deactivated)
                     EXCEPT ![transaction[c].prompt_id].is_active_version = TRUE]
    /\ transaction' = [transaction EXCEPT ![c] = [NoTransaction EXCEPT !.status = 200]]
    /\ UNCHANGED next_id
    /\ UNCHANGED outside

PromptInit ==
    /\ TablesInit
    /\ SharedInit
    /\ pc = "prompts"
    /\ request = NoRequest
    /\ session = "none"
    /\ LocalsInit
    /\ ElsewhereInit

PromptNext ==
    \/ \E c \in Clients : CreateRead(c)
    \/ \E c \in Clients : CreateDeactivate(c)
    \/ \E c \in Clients : CreateCommit(c)
    \/ \E c \in Clients : ActivateRead(c)
    \/ \E c \in Clients : ActivateDeactivate(c)
    \/ \E c \in Clients : LockGranted(c)
    \/ \E c \in Clients : ActivateCommit(c)

PromptSpec == PromptInit /\ [][PromptNext]_vars

(***************************************************************************)
(* Properties                                                              *)
(***************************************************************************)
\* the scoring loop has run in this request
Scored == results # << >>

\* the detail stored for a row of the scoring query
DetailOf(row) ==
    CHOOSE d \in Range(experience_details) :
        /\ d.expert_id = row.expert_id
        /\ d.experience_id = row.experience_id
        /\ d.attribute_id = row.attribute_id

\* the base score of a row: duration x recency x similarity of the match
BaseOf(row) ==
    FMul(FMul(row.duration_years, row.recency_multiplier),
         attr_similarity[row.attribute_id].similarity)

\* the effective weight of the type of the attribute of a row
TypeWeightOf(row) ==
    get_attribute_weight(effective_config, attribute[row.attribute_id].type)

RECURSIVE SumRows(_)
SumRows(I) ==
    IF I = {} THEN 0
    ELSE LET i == CHOOSE k \in I : TRUE
         IN  DetailOf(results[i]).score.v + SumRows(I \ {i})

RowsOf(expert_id) == { i \in 1..Len(results) : results[i].expert_id = expert_id }

\* C2: the total of every scored expert is the sum of the contributions of
\* the rows of that expert's experiences; the scoring query returns each
\* pair (experience, matched attribute) exactly once; and the scored experts
\* are those that have a row.
C2_TotalIsSum ==
    Scored =>
        /\ \A k \in 1..Len(expert_scores) :
              LET id == expert_scores[k].expert_id
                  cx == \E i \in RowsOf(id) : DetailOf(results[i]).score.cx
              IN  /\ RowsOf(id) # {}
                  /\ expert_scores[k].score.cx = cx
                  /\ ~cx => expert_scores[k].score.v = SumRows(RowsOf(id))
                  /\ \A j \in 1..Len(expert_scores) :
                        expert_scores[j].expert_id = id => j = k
        /\ \A i \in 1..Len(results) :
              /\ \E k \in 1..Len(expert_scores) :
                    expert_scores[k].expert_id = results[i].expert_id
              /\ results[i].expert_id = experience[results[i].experience_id].expert_id
              /\ DetailOf(results[i]).score = Contribution(results[i], attr_similarity)
        /\ \A p \in experience_attribute :
              p[2] \in Range(all_attribute_ids) =>
                 Cardinality({ i \in 1..Len(results) :
                                 /\ results[i].experience_id = p[1]
                                 /\ results[i].attribute_id = p[2] }) = 1
        /\ Len(results) =
              Cardinality({ p \in experience_attribute : p[2] \in Range(all_attribute_ids) })

\* an expert with two rows of contribution # 0, and a second scored expert
C2_Witness ==
    /\ pc = "done"
    /\ Len(expert_scores) >= 2
    /\ \E k \in 1..Len(expert_scores) :
          /\ Cardinality({ i \in RowsOf(expert_scores[k].expert_id) :
                             DetailOf(results[i]).score.v > 0 }) >= 2
          /\ ~expert_scores[k].score.cx

\* C3: the ranked list holds the scored experts by total score descending,
\* experts of equal total in ascending expert id.
C3_Ranking ==
    sorted_experts # << >> =>
        /\ Len(sorted_experts) = Len(expert_scores)
        /\ Range(sorted_experts) = Range(expert_scores)
        /\ \A i, j \in 1..Len(sorted_experts) :
              i < j =>
                 /\ sorted_experts[i].score.v >= sorted_experts[j].score.v
                 /\ sorted_experts[i].score.v = sorted_experts[j].score.v
                       => sorted_experts[i].expert_id < sorted_experts[j].expert_id

\* a ranking that differs from the order of the rows and holds a tie
C3_Witness ==
    /\ pc = "done"
    /\ Len(sorted_experts) >= 3
    /\ sorted_experts # expert_scores
    /\ \E i \in 1..(Len(sorted_experts) - 1) :
          sorted_experts[i].score.v = sorted_experts[i + 1].score.v

\* the ids of the experts of the response, and a ceiling of n / d for d >= 1
ResponseIds == [k \in 1..Len(response.experts) |-> response.experts[k].id]
IsCeilDiv(t, n, d) == t * d >= n /\ (t - 1) * d < n

\* C4: for a ranked list of N experts, page >= 1 and page_size >= 1, the
\* experts returned are those at the rank indices
\* [(page-1)*page_size, min(page*page_size, N)), in rank order, and
\* total_pages is ceil(N / page_size).
C4_Pagination ==
    ( /\ pc = "done"
      /\ response.kind \in {"results", "empty_page"}
      /\ request.page >= 1
      /\ request.page_size >= 1 ) =>
        LET N == Len(sorted_experts)
            lo == (request.page - 1) * request.page_size
            hi == Min(request.page * request.page_size, N)
        IN  /\ ResponseIds = [k \in 1..Max(hi - lo, 0) |-> sorted_experts[lo + k].expert_id]
            /\ response.paging
            /\ IsCeilDiv(response.total_pages, N, request.page_size)

\* the ranked list has been sliced in this request
Sliced ==
    /\ pc \in {"detail", "done"}
    /\ "scoring" \in Range(calls)
    /\ response.kind \in {"", "results", "empty_page"}

\* C5: no request with page < 1 or page_size < 1 is used to slice the ranked
\* list, and the page_size used never exceeds max_page_size.
C5_PageValidated ==
    Sliced =>
        /\ request.page >= 1
        /\ request.page_size >= 1
        /\ request.page_size <= SEARCH_CONFIG.max_page_size

\* no term of the request resolved to an attribute
NothingMatched == \A t \in DOMAIN search_attributes : search_attributes[t] = << >>

\* C6: a request in which no term resolved to an attribute ends with a 200,
\* an empty expert list and total_experts = 0, and issues neither the
\* scoring query nor the expert detail query.
C6_NoMatchShortCut ==
    [][ (pc = "score" /\ NothingMatched) =>
           /\ pc' = "done"
           /\ response'.status = 200
           /\ response'.experts = << >>
           /\ response'.total_experts = 0
           /\ "scoring" \notin Range(calls')
           /\ "detail" \notin Range(calls') ]_vars

\* a request whose terms were embedded and matched, none to an attribute
C6_Witness ==
    /\ pc = "done"
    /\ all_terms # << >>
    /\ term_idx > Len(all_terms)
    /\ NothingMatched
    /\ response.status = 200
    /\ response.kind = "no_matches"

\* C7: an attribute is accepted as the match of a term only if its
\* similarity is >= the effective similarity_threshold.
C7_Threshold ==
    \A t \in DOMAIN search_attributes :
        \A k \in 1..Len(search_attributes[t]) :
            search_attributes[t][k].similarity >= effective_config.similarity_threshold

\* the positions of the types with a list whose first term is not blank
FirstTermTypes ==
    { i \in 1..Len(SEARCHABLE_ATTRIBUTE_TYPES) :
        LET terms == TermsOf(llm_extracted, SEARCHABLE_ATTRIBUTE_TYPES[i])
        IN  terms # << >> /\ Strip(terms[1]) # "" }

CountCalls(c) == Cardinality({ i \in 1..Len(calls) : calls[i] = c })

\* C8: the terms embedded and matched are the first terms of the lists, one
\* for each type at most: no later term of a list is sent to the embedding
\* provider or matched.
C8_FirstTermOnly ==
    /\ Len(all_terms) = Cardinality(FirstTermTypes)
    /\ \A i \in FirstTermTypes :
          all_terms[Cardinality({ j \in FirstTermTypes : j <= i })] =
             Strip(TermsOf(llm_extracted, SEARCHABLE_ATTRIBUTE_TYPES[i])[1])
    /\ embeddings # << >> =>
          embeddings = [i \in 1..Len(all_terms) |-> EmbeddingOf(all_terms[i])]
    /\ CountCalls("match") <= Len(all_terms)

\* a request with a list of two terms, the first not blank, all matched
C8_Witness ==
    /\ pc = "done"
    /\ term_idx > Len(all_terms)
    /\ all_terms # << >>
    /\ CountCalls("match") = Len(all_terms)
    /\ \E i \in FirstTermTypes :
          Len(llm_extracted[SEARCHABLE_ATTRIBUTE_TYPES[i]]) >= 2

\* the loop over the terms has ended
Resolved ==
    /\ pc \in {"score", "detail", "done"}
    /\ all_terms # << >>
    /\ term_idx > Len(all_terms)

CallRank(c) ==
    CASE c = "llm"     -> 1
      [] c = "embed"   -> 2
      [] c = "match"   -> 3
      [] c = "scoring" -> 4
      [] OTHER         -> 5

\* C10: in a request the LLM call, the batch embedding call, the scoring
\* query and the detail load are made at most once each, in this order, the
\* match queries between the embedding call and the scoring query; no
\* embedding call is made when no term was selected.
C10_CallOrder ==
    /\ \A i, j \in 1..Len(calls) : i < j => CallRank(calls[i]) <= CallRank(calls[j])
    /\ \A c \in {"llm", "embed", "scoring", "detail"} : CountCalls(c) <= 1
    /\ calls # << >> => calls[1] = "llm"
    /\ CountCalls("match") <= Len(all_terms)
    /\ all_terms = << >> => CountCalls("embed") = 0 /\ CountCalls("match") = 0
    /\ CountCalls("match") > 0 => CountCalls("embed") = 1
    /\ CountCalls("scoring") = 1 =>
          /\ CountCalls("match") = Len(all_terms)
          /\ all_terms # << >> => CountCalls("embed") = 1
    /\ CountCalls("detail") = 1 => CountCalls("scoring") = 1

\* a request that went through every step, with two terms
C10_Witness ==
    /\ pc = "done"
    /\ calls = << "llm", "embed", "match", "match", "scoring", "detail" >>
    /\ response.kind = "results"

\* the number of calls c in a list of calls
CallsIn(cs, c) == Cardinality({ i \in 1..Len(cs) : cs[i] = c })

\* C11: when the LLM extraction call or the batch embedding call fails, the
\* request ends at once with a 5xx error response without experts: the call
\* was made once, and no match, scoring or detail query follows it.
C11_FailFast ==
    [][ (pc \in {"llm", "embed"} /\ pc' = "done") =>
           /\ response'.status >= 500
           /\ response'.kind = "error"
           /\ response'.experts = << >>
           /\ CallsIn(calls', pc) = 1
           /\ calls'[Len(calls')] = pc
           /\ "scoring" \notin Range(calls')
           /\ "detail" \notin Range(calls')
           /\ session' = "closed" ]_vars

\* a request whose embedding call failed after a successful extraction
C11_Witness ==
    /\ pc = "done"
    /\ calls = << "llm", "embed" >>
    /\ all_terms # << >>
    /\ response.status = 500
    /\ results = << >>

\* the request carries an input error: no query text, or settings that are
\* not a key/value map
InputError ==
    /\ request.content_type \in {"application/json", "text/plain"}
    /\ \/ Strip(request.text) = ""
       \/ request.settings.t # "dict"

\* C12: a request without query text (empty, blank or absent) or with
\* settings that are not a key/value map ends with a 4xx response, without
\* any LLM, embedding or database call and with the tables untouched.
C12_InputRejected ==
    (pc # "idle" /\ InputError) =>
        /\ pc = "done"
        /\ response.status >= 400 /\ response.status < 500
        /\ calls = << >>
        /\ attribute = InitAttribute
        /\ experience = InitExperience
        /\ experience_attribute = InitExperienceAttribute
        /\ expert = InitExpert

(***************************************************************************)
(* Properties of merge_config (specification MergeSpec)                    *)
(***************************************************************************)
\* the items of the settings dict of the request
Overrides == request.settings.items

\* an override of the scalar settings (of attribute_weights) raises
ScalarRaises ==
    \E i \in 1..Len(Overrides) :
        Overrides[i].key # "attribute_weights"
          /\ ItemRaises(Overrides[i].key, Overrides[i].value)
WeightsRaise ==
    \E i \in 1..Len(Overrides) :
        Overrides[i].key = "attribute_weights"
          /\ ItemRaises(Overrides[i].key, Overrides[i].value)

\* a number lies within the range of a setting
InRange(key, v) ==
    v # NaN /\ v >= valid_settings[key].min /\ v <= valid_settings[key].max

\* C13: merge_config does not raise on a value of a scalar setting, every
\* scalar setting of the effective config lies within its range, and an
\* override below (above) the range becomes the lower (upper) bound.
C13_Clamped ==
    (pc # "merge" /\ ~WeightsRaise) =>
        /\ pc = "merged"
        /\ \A key \in DOMAIN valid_settings : InRange(key, effective_config[key])
        /\ \A i \in 1..Len(Overrides) :
              LET key == Overrides[i].key
                  c == CoerceSetting(key, Overrides[i].value)
              IN  (key \in DOMAIN valid_settings /\ c.ok /\ c.v # NaN) =>
                     effective_config[key] =
                        IF c.v < valid_settings[key].min THEN valid_settings[key].min
                        ELSE IF c.v > valid_settings[key].max THEN valid_settings[key].max
                        ELSE c.v

\* what merge_config makes of one override alone
AloneConfig(item) == MergeOne(SEARCH_CONFIG, SEARCH_CONFIG, item.key, item.value)

\* C14: an override of a scalar setting whose value cannot be coerced to the
\* type of the setting is dropped without an error: the setting keeps its
\* default and every other override of the map is applied.
C14_DropUncoercible ==
    (pc # "merge" /\ ~WeightsRaise) =>
        \A i \in 1..Len(Overrides) :
            LET key == Overrides[i].key
            IN  (key \in DOMAIN valid_settings
                   /\ ~CoerceSetting(key, Overrides[i].value).ok) =>
                   /\ pc = "merged"
                   /\ effective_config[key] = SEARCH_CONFIG[key]
                   /\ \A j \in 1..Len(Overrides) :
                         (j # i /\ Overrides[j].key \in DOMAIN SEARCH_CONFIG) =>
                            effective_config[Overrides[j].key] =
                               AloneConfig(Overrides[j])[Overrides[j].key]

\* the last entry of a weights list that names a type with a weight that
\* coerces to float; 0 when there is none
LastEntryFor(items, attr_type) ==
    LET hits == { i \in 1..Len(items) :
                    /\ items[i].dict
                    /\ items[i].name = attr_type
                    /\ ToFloat(items[i].weight).ok }
    IN  IF hits = {} THEN 0 ELSE CHOOSE i \in hits : \A j \in hits : j <= i

\* C15: the effective weights hold one entry for each default type, in the
\* default order; the weight of a type is its default unless the override is
\* a list with an entry naming the type whose weight coerces to float, and
\* then it is that weight (of the last such entry) clamped to [0, 10];
\* entries that are malformed or name another type change nothing.
C15_Weights ==
    (pc # "merge" /\ ~ScalarRaises) =>
        \A i \in 1..Len(Overrides) :
            Overrides[i].key = "attribute_weights" =>
               /\ pc = "merged"
               /\ Len(effective_config.attribute_weights) = Len(ATTRIBUTE_WEIGHTS)
               /\ \A k \in 1..Len(ATTRIBUTE_WEIGHTS) :
                     LET got == effective_config.attribute_weights[k]
                         value == Overrides[i].value
                         last == IF value.t = "list"
                                 THEN LastEntryFor(value.items, ATTRIBUTE_WEIGHTS[k].name)
                                 ELSE 0
                         w == ToFloat(value.items[last].weight).v
                     IN  /\ got.name = ATTRIBUTE_WEIGHTS[k].name
                         /\ got.weight >= 0 /\ got.weight <= 10 * Scale
                         /\ last = 0 => got.weight = ATTRIBUTE_WEIGHTS[k].weight
                         /\ (last # 0 /\ w # NaN) =>
                               got.weight = Max(0, Min(10 * Scale, w))

\* the keys merge_config may change
Overridable == DOMAIN valid_settings \cup {"attribute_weights"}

OverrideKeySet == { Overrides[i].key : i \in 1..Len(Overrides) }

\* C16: the effective config has exactly the keys of the defaults, and a key
\* that is not overridable (default_page_size, max_page_size, an unknown
\* key) or not named by the overrides keeps its default value.
C16_KeySet ==
    pc = "merged" =>
        /\ DOMAIN effective_config = DOMAIN SEARCH_CONFIG
        /\ \A key \in DOMAIN SEARCH_CONFIG :
              (key \notin Overridable \/ key \notin OverrideKeySet) =>
                 effective_config[key] = SEARCH_CONFIG[key]

\* a merge of a map that names default_page_size or max_page_size together
\* with an override that is applied
C16_Witness ==
    /\ pc = "merged"
    /\ OverrideKeySet \cap {"default_page_size", "max_page_size"} # {}
    /\ effective_config.similarity_threshold = 90

DeletedAfterScoring ==
    /\ "detail" \in Range(calls)
    /\ \/ expert # InitExpert
       \/ DOMAIN experience # DOMAIN InitExperience
       \/ DOMAIN attribute # DOMAIN InitAttribute

\* C18: when an attribute, an experience or an expert that the scoring query
\* returned is deleted before the expert details are loaded, the request
\* still ends with a result (200), not with a 5xx error.  (Requests whose
\* scores are complex numbers fail for another reason and are left out.)
C18_DeleteTolerated ==
    ( /\ pc = "done"
      /\ DeletedAfterScoring
      /\ \A i \in 1..Len(paginated_experts) : ~paginated_experts[i].score.cx ) =>
        /\ response.status = 200
        /\ response.kind = "results"

(***************************************************************************)
(* Properties of the recency multiplier (specification RecencySpec)        *)
(***************************************************************************)
\* the age in days of the experience of a row of the scoring query
AgeOf(row) == Today - experience[row.experience_id].end_date

\* C19: with a recency_decay_factor in [0, 1], the recency multiplier of
\* every row of the scoring query is at least 0.1, and of two rows the one
\* of the older experience never has the larger multiplier.
C19_Recency ==
    ( /\ effective_config.recency_decay_factor >= 0
      /\ effective_config.recency_decay_factor <= Scale ) =>
        \A i, j \in 1..Len(results) :
            /\ results[i].recency_multiplier >= Scale \div 10
            /\ results[i].recency_multiplier =
                  recency_multiplier(effective_config.recency_decay_factor,
                                     experience[results[i].experience_id])
            /\ AgeOf(results[i]) <= AgeOf(results[j]) =>
                  results[i].recency_multiplier >= results[j].recency_multiplier

\* rows of three ages: one not decayed, one decayed and one at the floor
C19_Witness ==
    \E i, j, k \in 1..Len(results) :
        /\ AgeOf(results[i]) < AgeOf(results[j])
        /\ AgeOf(results[j]) < AgeOf(results[k])
        /\ results[i].recency_multiplier >= Scale
        /\ results[j].recency_multiplier < Scale
        /\ results[j].recency_multiplier > results[k].recency_multiplier
        /\ results[k].recency_multiplier = Scale \div 10

(***************************************************************************)
(* Properties of the sign of the scores (specification Spec)               *)
(***************************************************************************)
\* C20: every contribution of the scoring loop and every expert total is a
\* real number >= 0, and the ranking of line 364 does not fail.
C20_NonNegative ==
    /\ \A i \in 1..Len(experience_details) :
          /\ ~experience_details[i].score.cx
          /\ experience_details[i].score.v >= 0
    /\ \A k \in 1..Len(expert_scores) :
          /\ ~expert_scores[k].score.cx
          /\ expert_scores[k].score.v >= 0
    /\ ~SortRaises(expert_scores)

(***************************************************************************)
(* Properties of cosine_similarity (specification CosineSpec)              *)
(***************************************************************************)
\* the squared length of a vector, exactly
SumSq(vec) == np_dot(vec, vec)

\* one of the cases in which the similarity is defined as 0.0
ZeroCase ==
    \/ embedding1 = JNone \/ embedding2 = JNone
    \/ /\ IsVector(embedding1) /\ IsVector(embedding2)
       /\ \/ Len(embedding1.items) # Len(embedding2.items)
          \/ SumSq(embedding1.items) = 0
          \/ SumSq(embedding2.items) = 0

\* v (in hundredths) is dot(a,b)/(|a||b|) to within two hundredths: v has the
\* sign of the dot product and v^2 |a|^2 |b|^2 brackets dot^2
Abs(n) == IF n < 0 THEN 0 - n ELSE n
IsCosine(v, a, b) ==
    LET d == np_dot(a, b)
        ab == SumSq(a) * SumSq(b)
        lo == Max(0, Abs(v) - 2)
        hi == Abs(v) + 2
    IN  /\ v # NaN
        /\ (d > 0 => v > 0) /\ (d < 0 => v < 0) /\ (d = 0 => v = 0)
        /\ lo * lo * ab <= d * d * Scale * Scale
        /\ d * d * Scale * Scale <= hi * hi * ab

\* C21: cosine_similarity never raises; it returns 0.0 when an argument is
\* None, when the dimensions differ or when a vector has norm zero, and
\* otherwise dot(a,b)/(|a||b|), the same for (a,b) and (b,a)
C21_Cosine ==
    pc = "returned" =>
        /\ ~returned.raises
        /\ ZeroCase => returned.v = 0
        /\ (~ZeroCase /\ IsVector(embedding1) /\ IsVector(embedding2)) =>
              /\ IsCosine(returned.v, embedding1.items, embedding2.items)
              /\ returned = cosine_similarity(embedding2, embedding1)

\* two different vectors at an angle strictly between 0 and 90 degrees
C21_Witness ==
    /\ pc = "returned"
    /\ returned.v > 0 /\ returned.v < Scale
    /\ embedding1 # embedding2

(***************************************************************************)
(* Properties of the resolution over a store with missing embeddings       *)
(* (specification SparseSpec)                                              *)
(***************************************************************************)
\* the attribute types without a stored attribute that has an embedding
NoEmbeddingTypes ==
    { t \in TypeSet :
        \A id \in DOMAIN attribute :
            attribute[id].type = t => attribute[id].embedding = NoEmbedding }

\* the trace entries and the scoring entries recorded for a term text
TraceOf(term) ==
    { e \in UNION { Range(extracted_attributes[u]) : u \in DOMAIN extracted_attributes } :
        e.term = term }
ScoringOf(term) ==
    { e \in UNION { Range(search_attributes[u]) : u \in DOMAIN search_attributes } :
        e.extracted_term = term }

\* C22: a term of a type without any stored embedding resolves to no match:
\* it is in the trace, with source no_match, no id and similarity 0.0, and
\* nothing enters the scoring attribute set for it
C22_NoEmbeddingNoMatch ==
    Resolved =>
        \A i \in FirstTermTypes :
            LET t == SEARCHABLE_ATTRIBUTE_TYPES[i]
                term == Strip(Head(llm_extracted[t]))
            IN  t \in NoEmbeddingTypes =>
                  /\ TraceOf(term) # {}
                  /\ \A e \in TraceOf(term) :
                        e.source = "no_match" /\ e.id = 0 /\ e.relevance_score = 0
                  /\ ScoringOf(term) = {}

(***************************************************************************)
(* Properties of the response as a whole (specification Spec)              *)
(***************************************************************************)
\* the experts with at least one row of the scoring query
ScoredExperts == { results[i].expert_id : i \in 1..Len(results) }

\* C27: whatever the page and the page size, total_experts is the number of
\* experts with at least one scored experience
C27_TotalExperts ==
    (pc = "done" /\ response.status = 200) =>
        response.total_experts = Cardinality(ScoredExperts)

\* C28: the session opened by a request is closed exactly once, by the step
\* that produces the response, whatever the exit path: a response is never
\* there with the session open, and the session is not closed before
C28_SessionClosed ==
    [][ /\ pc' = "done" => (session' = "closed" /\ session # "closed" /\ pc # "done")
        /\ session' = "closed" => pc' = "done" ]_vars

\* a request that ended in the handler of unexpected exceptions after the
\* scoring query, with the session closed
C28_Witness ==
    /\ pc = "done"
    /\ session = "closed"
    /\ response.status = 500
    /\ results # << >>

\* C23: after any interleaving of the attribute POST and PUT, the ingestion
\* of an expert and the CSV loaders, no two stored attributes have the same
\* (type, name).
C23_UniqueTypeName ==
    \A a \in DOMAIN attribute, b \in DOMAIN attribute :
        (attribute[a].type = attribute[b].type /\ attribute[a].name = attribute[b].name)
            => a = b

\* the ingestion looked a name up, found nothing, and its insert met the row
\* another request had committed in between
C23_Witness ==
    /\ ingest.cause = "IntegrityError"
    /\ \E a \in DOMAIN attribute : a \notin ingest.created_attribute
    /\ loader.rows > 0

\* C24: after any run of the loaders and attribute creations, every stored
\* attribute with a parent has depth = parent.depth + 1 and every attribute
\* without a parent has depth 0.
C24_DepthOfParent ==
    \A a \in DOMAIN attribute :
        IF attribute[a].parent_id = 0
        THEN attribute[a].depth = 0
        ELSE /\ attribute[a].parent_id \in DOMAIN attribute
             /\ attribute[a].depth = attribute[attribute[a].parent_id].depth + 1

\* C25: after any sequence of experience creations and updates (experience
\* POST and PUT, the ingestion of an expert), every stored experience has
\* start_date <= end_date.
C25_StartBeforeEnd ==
    \A e \in DOMAIN experience : experience[e].start_date <= experience[e].end_date

\* the name, type and summary of a row
Content(row) == << row.type, row.name, row.summary >>

\* C26: whenever the name, type or summary of a stored attribute changes, the
\* embedding stored after the update is the one generated from the new name,
\* type and summary.
C26_EmbeddingFollowsContent ==
    [][ \A a \in DOMAIN attribute \cap DOMAIN attribute' :
            Content(attribute'[a]) # Content(attribute[a])
                => attribute'[a].embedding =
                       generate_attribute_embedding(attribute'[a].name, attribute'[a].type,
                                                    attribute'[a].summary) ]_vars

\* what the request of the ingestion flushed that is in the tables
PersistedOfIngest ==
    [expert |-> {ingest.expert} \cap expert,
     experience |-> ingest.created_experience \cap DOMAIN experience,
     attribute |-> ingest.created_attribute \cap DOMAIN attribute,
     links |-> { q \in experience_attribute :
                    q[1] \in ingest.created_experience \/ q[2] \in ingest.created_attribute }]

\* C29: when the ingestion of an expert fails after the expert was flushed,
\* no expert, experience, attribute or association created by the request is
\* persisted.
C29_AllOrNothing ==
    (ingest.state = "done" /\ ingest.status = 400 /\ ingest.expert # 0)
        => PersistedOfIngest = [expert |-> {}, experience |-> {}, attribute |-> {}, links |-> {}]

\* the ingestion failed on its second attribute, after an expert, an
\* experience, an attribute and a link had been flushed
C29_Witness ==
    /\ ingest.state = "done"
    /\ ingest.status = 400
    /\ ingest.expert # 0
    /\ ingest.created_experience # {}
    /\ ingest.created_attribute # {}
    /\ attribute # << >>

\* the ingestion failed on the date of its experience
C29_WitnessDate ==
    /\ ingest.state = "done"
    /\ ingest.cause = "ValueError"
    /\ ingest.expert # 0

\* C30: after any interleaving of create-version and activate-version
\* requests, at most one version of each template is active and the version
\* numbers within a template are distinct.
C30_OneActiveDistinctVersions ==
    /\ \A template_name \in Templates : Cardinality(ActiveVersions(template_name)) <= 1
    /\ \A a \in DOMAIN prompt, b \in DOMAIN prompt :
          (/\ prompt[a].template_name = prompt[b].template_name
           /\ prompt[a].version_number = prompt[b].version_number) => a = b

====
